---------------------------- MODULE Spec2Model ----------------------------
(***************************************************************************)
(* Model of the bmlt-meeting-import pipeline: SpreadsheetProcessor,        *)
(* NAWSMapper, ServiceBodyCreator and MeetingImportService.                *)
(*                                                                         *)
(* Strings are sequences of one-character strings, so that trim,           *)
(* toUpperCase, parseInt and the time/day encoders are computed the way    *)
(* the code computes them.                                                 *)
(***************************************************************************)
EXTENDS Integers, Sequences, FiniteSets, TLC

(***************************************************************************)
(* Bounds of the model                                                     *)
(***************************************************************************)
\* longest file whose rows are chosen freely among RowKinds
MaxRows == 2
\* longest file made of copies of one row kind
MaxBulkRows == 51
\* longest time text passed to isValidTime and formatTimeForBMLT
MaxTimeLen == 5
\* longest freely spelled day text passed to mapDayToBMLT
MaxDayLen == 3
\* longest row list passed to extractUniqueAreas
MaxAreaRows == 3

(***************************************************************************)
(* JavaScript string primitives                                            *)
(***************************************************************************)
LowerLetters == <<"a","b","c","d","e","f","g","h","i","j","k","l","m",
                  "n","o","p","q","r","s","t","u","v","w","x","y","z">>
UpperLetters == <<"A","B","C","D","E","F","G","H","I","J","K","L","M",
                  "N","O","P","Q","R","S","T","U","V","W","X","Y","Z">>
DigitChars == <<"0","1","2","3","4","5","6","7","8","9">>

IndexIn(c, seq) ==
  IF \E k \in 1..Len(seq) : seq[k] = c
    THEN CHOOSE k \in 1..Len(seq) : seq[k] = c
    ELSE 0

toUpperChar(c) == IF IndexIn(c, LowerLetters) > 0 THEN UpperLetters[IndexIn(c, LowerLetters)] ELSE c
toLowerChar(c) == IF IndexIn(c, UpperLetters) > 0 THEN LowerLetters[IndexIn(c, UpperLetters)] ELSE c

toUpperCase(s) == [k \in 1..Len(s) |-> toUpperChar(s[k])]
toLowerCase(s) == [k \in 1..Len(s) |-> toLowerChar(s[k])]

IsSpace(c) == c = " "
IsDigit(c) == IndexIn(c, DigitChars) > 0
DigitVal(c) == IndexIn(c, DigitChars) - 1

\* String.prototype.trim
trim(s) ==
  LET keep == {k \in 1..Len(s) : ~IsSpace(s[k])}
  IN IF keep = {} THEN <<>>
     ELSE LET lo == CHOOSE k \in keep : \A m \in keep : k <= m
              hi == CHOOSE k \in keep : \A m \in keep : k >= m
          IN SubSeq(s, lo, hi)

\* a string used as a condition: '' is falsy, everything else truthy
Truthy(s) == s # <<>>

\* NaN, the result of parseInt on a string without leading digit; no number the
\* model computes is negative
NaN == -1

\* parseInt of a string made of digits and colons: the value of the leading
\* run of digits, NaN when there is none
RECURSIVE LeadingDigits(_)
LeadingDigits(s) ==
  IF s = <<>> \/ ~IsDigit(Head(s)) THEN <<>>
  ELSE <<Head(s)>> \o LeadingDigits(Tail(s))

RECURSIVE DigitsValue(_)
DigitsValue(d) ==
  IF d = <<>> THEN 0
  ELSE 10 * DigitsValue(SubSeq(d, 1, Len(d) - 1)) + DigitVal(d[Len(d)])

parseInt(s) == IF LeadingDigits(s) = <<>> THEN NaN ELSE DigitsValue(LeadingDigits(s))

\* Number.prototype.toString for a non-negative integer or NaN
RECURSIVE numToString(_)
numToString(n) ==
  IF n = NaN THEN <<"N","a","N">>
  ELSE IF n < 10 THEN <<DigitChars[n + 1]>>
  ELSE numToString(n \div 10) \o <<DigitChars[(n % 10) + 1]>>

\* padStart(2, '0')
padStart2(s) == IF Len(s) >= 2 THEN s ELSE IF Len(s) = 1 THEN <<"0">> \o s ELSE <<"0","0">>

\* time.replace(/[^0-9:]/g, '')
RECURSIVE stripTime(_)
stripTime(s) ==
  IF s = <<>> THEN <<>>
  ELSE IF IsDigit(Head(s)) \/ Head(s) = ":" THEN <<Head(s)>> \o stripTime(Tail(s))
  ELSE stripTime(Tail(s))

\* str.split(':')
RECURSIVE splitColon(_)
splitColon(s) ==
  IF \A k \in 1..Len(s) : s[k] # ":" THEN <<s>>
  ELSE LET p == CHOOSE k \in 1..Len(s) : s[k] = ":" /\ \A m \in 1..(k-1) : s[m] # ":"
       IN <<SubSeq(s, 1, p - 1)>> \o splitColon(SubSeq(s, p + 1, Len(s)))

\* hours >= 0 && hours <= 23 && minutes >= 0 && minutes <= 59 (false on NaN)
InClockRange(hours, minutes) ==
  /\ hours # NaN /\ minutes # NaN
  /\ hours >= 0 /\ hours <= 23 /\ minutes >= 0 /\ minutes <= 59

(***************************************************************************)
(* SpreadsheetProcessor: validators and encoders                           *)
(***************************************************************************)
validDays == << <<"s","u","n","d","a","y">>, <<"m","o","n","d","a","y">>,
                <<"t","u","e","s","d","a","y">>, <<"w","e","d","n","e","s","d","a","y">>,
                <<"t","h","u","r","s","d","a","y">>, <<"f","r","i","d","a","y">>,
                <<"s","a","t","u","r","d","a","y">> >>

isValidDay(day) == IndexIn(toLowerCase(day), validDays) > 0

isValidTime(time) ==
  LET timeStr == stripTime(time)
  IN IF Len(timeStr) = 3 \/ Len(timeStr) = 4
       THEN LET num == parseInt(timeStr)
            IN IF num = NaN THEN FALSE
               ELSE InClockRange(num \div 100, num % 100)
     ELSE IF \E k \in 1..Len(timeStr) : timeStr[k] = ":"
       THEN LET parts == splitColon(timeStr)
            IN IF Len(parts) = 2
                 THEN InClockRange(parseInt(parts[1]), parseInt(parts[2]))
                 ELSE FALSE
     ELSE FALSE

\* mutant of formatTimeForBMLT: a text with a colon is split at the colon
\* whatever its length
formatTimeForBMLT_colonFirst(time) ==
  LET timeStr == stripTime(time)
      hhmm(h, m) == padStart2(numToString(h)) \o <<":">> \o padStart2(numToString(m))
  IN IF (\E k \in 1..Len(timeStr) : timeStr[k] = ":") /\ Len(splitColon(timeStr)) = 2
       THEN hhmm(parseInt(splitColon(timeStr)[1]), parseInt(splitColon(timeStr)[2]))
     ELSE IF Len(timeStr) = 3 \/ Len(timeStr) = 4
       THEN LET num == parseInt(timeStr)
            IN IF num = NaN THEN hhmm(NaN, NaN)
               ELSE hhmm(num \div 100, num % 100)
     ELSE <<"1","2",":","0","0">>

formatTimeForBMLT(time) ==
  LET timeStr == stripTime(time)
      hhmm(h, m) == padStart2(numToString(h)) \o <<":">> \o padStart2(numToString(m))
  IN IF Len(timeStr) = 3 \/ Len(timeStr) = 4
       THEN LET num == parseInt(timeStr)
            IN IF num = NaN THEN hhmm(NaN, NaN)
               ELSE hhmm(num \div 100, num % 100)
     ELSE IF (\E k \in 1..Len(timeStr) : timeStr[k] = ":") /\ Len(splitColon(timeStr)) = 2
       THEN hhmm(parseInt(splitColon(timeStr)[1]), parseInt(splitColon(timeStr)[2]))
     ELSE <<"1","2",":","0","0">>

\* the lower-case property names every object literal inherits from
\* Object.prototype: dayMap[key] finds them although dayMap does not list them
ObjectPrototypeKeys ==
  { <<"c","o","n","s","t","r","u","c","t","o","r">>, <<"_","_","p","r","o","t","o","_","_">> }

\* stands for an inherited member (the Object function, Object.prototype):
\* a value that is neither a number nor null or undefined
InheritedMember == -2

\* dayMap[day.toLowerCase()] ?? 0
mapDayToBMLT(day) ==
  IF IndexIn(toLowerCase(day), validDays) > 0
    THEN IndexIn(toLowerCase(day), validDays) - 1
  ELSE IF toLowerCase(day) \in ObjectPrototypeKeys
    THEN InheritedMember
    ELSE 0


(***************************************************************************)
(* SpreadsheetProcessor.validateAndProcess                                 *)
(*                                                                         *)
(* A file is [headers, data]: the set of (lower-cased, trimmed) header     *)
(* names of its first row, and its data rows.  A data row is a record of raw   *)
(* cells with its number of cells (0: no cells).  The model carries the     *)
(* columns the validator, the mapper's control flow, its format and venue  *)
(* computations read; the remaining columns are copied text.               *)
(***************************************************************************)
EXPECTED_COLUMNS ==
  <<"delete", "parentname", "committee", "committeename", "arearegion", "day", "time",
    "place", "address", "city", "locborough", "state", "zip", "country", "directions",
    "closed", "wheelchr", "format1", "format2", "format3", "format4", "format5",
    "longitude", "latitude", "room", "phonemeetingnumber", "virtualmeetinglink",
    "virtualmeetinginfo", "timezone">>

REQUIRED_COLUMNS == <<"committeename", "arearegion", "day", "time">>

ModelledColumns ==
  {"delete", "parentname", "committee", "committeename", "arearegion", "day", "time",
   "address", "city", "closed", "wheelchr", "format1", "format2", "format3", "format4",
   "format5", "room", "phonemeetingnumber", "virtualmeetinglink", "timezone"}

AllHeaders == {EXPECTED_COLUMNS[k] : k \in 1..Len(EXPECTED_COLUMNS)}

\* mutant of missingColumns: only the first absent column is reported
missingColumns_first(headers) ==
  LET absent == {k \in 1..Len(EXPECTED_COLUMNS) : EXPECTED_COLUMNS[k] \notin headers}
  IN IF absent = {} THEN <<>>
     ELSE << EXPECTED_COLUMNS[CHOOSE k \in absent : \A m \in absent : k <= m] >>

\* the columns of EXPECTED_COLUMNS absent from the header row, in list order
missingColumns(headers) ==
  LET F[k \in 0..Len(EXPECTED_COLUMNS)] ==
        IF k = 0 THEN <<>>
        ELSE IF EXPECTED_COLUMNS[k] \in headers THEN F[k - 1]
        ELSE Append(F[k - 1], EXPECTED_COLUMNS[k])
  IN F[Len(EXPECTED_COLUMNS)]

\* the header row lists the columns in the order of EXPECTED_COLUMNS
columnIndex(colName) == IndexIn(colName, EXPECTED_COLUMNS) - 1

\* colIndex < row.length ? (cellValue ? cellValue.toString().trim() : '') : ''
normalizeRow(row) ==
  [c \in ModelledColumns |->
     IF columnIndex(c) < row.length /\ Truthy(row[c]) THEN trim(row[c]) ELSE <<>>]

\* the warnings of one normalized row, in the order the code pushes them
rowWarnings(nawsRow, rowNumber) ==
  LET req[k \in 0..Len(REQUIRED_COLUMNS)] ==
        IF k = 0 THEN <<>>
        ELSE IF ~Truthy(nawsRow[REQUIRED_COLUMNS[k]]) \/ trim(nawsRow[REQUIRED_COLUMNS[k]]) = <<>>
          THEN Append(req[k - 1], [row |-> rowNumber, msg |-> "Missing required field", arg |-> <<REQUIRED_COLUMNS[k]>>])
        ELSE req[k - 1]
      day == IF Truthy(nawsRow.day) /\ ~isValidDay(nawsRow.day)
               THEN << [row |-> rowNumber, msg |-> "Invalid day value", arg |-> nawsRow.day] >> ELSE <<>>
      time == IF Truthy(nawsRow.time) /\ ~isValidTime(nawsRow.time)
               THEN << [row |-> rowNumber, msg |-> "Invalid time format", arg |-> nawsRow.time] >> ELSE <<>>
  IN req[Len(REQUIRED_COLUMNS)] \o day \o time

\* hasRequiredData: no required field missing, day and time well-formed
hasRequiredData(nawsRow) == rowWarnings(nawsRow, 0) = <<>>

\* mutant of isDeleted: only the upper-case flag marks a row as deleted
isDeleted_upperOnly(nawsRow) == nawsRow.delete = <<"D">>

\* nawsRow.delete?.toUpperCase() === 'D'
isDeleted(nawsRow) == toUpperCase(nawsRow.delete) = <<"D">>

\* the concatenation of the sequences seqs[lo], ..., seqs[hi]
RECURSIVE Flatten(_, _, _)
Flatten(seqs, lo, hi) ==
  IF lo > hi THEN <<>>
  ELSE IF lo = hi THEN seqs[lo]
  ELSE LET mid == (lo + hi) \div 2
       IN Flatten(seqs, lo, mid) \o Flatten(seqs, mid + 1, hi)

validateAndProcess(file) ==
  LET rawRows == file.data
      empty == [rows |-> <<>>, totalRows |-> Len(rawRows), validRows |-> 0,
                errors |-> <<>>, warnings |-> <<>>]
      \* the loop over the data rows; data row i is spreadsheet row i + 1
      visited == [i \in 1..Len(rawRows) |->
                    [i |-> i, length |-> rawRows[i].length, nawsRow |-> normalizeRow(rawRows[i])]]
      \* the rows that reach the end of the loop body: not empty, not deleted
      pushed == SelectSeq(visited, LAMBDA v : v.length # 0 /\ ~isDeleted(v.nawsRow))
      done == [empty EXCEPT
                 !.warnings = Flatten([j \in DOMAIN pushed |->
                                         rowWarnings(pushed[j].nawsRow, pushed[j].i + 1)],
                                      1, Len(pushed)),
                 !.validRows = Cardinality({j \in DOMAIN pushed : hasRequiredData(pushed[j].nawsRow)}),
                 !.rows = [j \in DOMAIN pushed |-> pushed[j].nawsRow]]
  IN IF missingColumns(file.headers) # <<>>
       THEN [empty EXCEPT !.errors = << [row |-> 0, msg |-> "Missing required columns",
                                         arg |-> missingColumns(file.headers)] >>]
     ELSE IF done.validRows = 0
       THEN [done EXCEPT !.errors = << [row |-> 0, msg |-> "No valid meeting data found in spreadsheet", arg |-> <<>>] >>]
     ELSE done

(***************************************************************************)
(* NAWSMapper                                                              *)
(***************************************************************************)
\* mappingResult.meeting === null
NoMeeting == [serviceBodyId |-> 0, formatIds |-> <<>>, venueType |-> 0, day |-> 0,
              startTime |-> <<>>, worldId |-> <<>>, name |-> <<>>]

\* the undefined result of Array.prototype.find on the service-body list
NoServiceBody == [id |-> 0, worldId |-> <<>>, adminUserId |-> 0]

\* mutant of serviceBodyIdFor: the worldIds of the list are compared as they are
serviceBodyIdFor_caseSensitive(serviceBodies, key) ==
  LET hits == {k \in 1..Len(serviceBodies) :
                 Truthy(serviceBodies[k].worldId) /\ serviceBodies[k].worldId = key}
  IN IF hits = {} THEN 0
     ELSE serviceBodies[CHOOSE k \in hits : \A m \in hits : m <= k].id

\* serviceBodyWorldIdMap.get(key): the map is filled in list order, so the
\* last service body with that upper-cased worldId wins; 0 stands for undefined
serviceBodyIdFor(serviceBodies, key) ==
  LET hits == {k \in 1..Len(serviceBodies) :
                 Truthy(serviceBodies[k].worldId) /\ toUpperCase(serviceBodies[k].worldId) = key}
  IN IF hits = {} THEN 0
     ELSE serviceBodies[CHOOSE k \in hits : \A m \in hits : m <= k].id

\* formatWorldIdMap.get(key): the ids of the formats with that upper-cased
\* worldId, in list order; <<>> stands for undefined (no entry is ever empty)
formatIdsFor(formats, key) ==
  LET hits == SelectSeq(formats, LAMBDA f : Truthy(f.worldId) /\ toUpperCase(f.worldId) = key)
  IN [k \in DOMAIN hits |-> hits[k].id]

RECURSIVE addAll(_, _)
\* mutant of addAll: the ids are collected in a list, not in a Set
addAll_noDedup(formatIds, ids) == formatIds \o ids

\* ids.forEach((id) => formatIds.add(id)) on a Set kept in insertion order
addAll(formatIds, ids) ==
  IF ids = <<>> THEN formatIds
  ELSE addAll(IF \E k \in DOMAIN formatIds : formatIds[k] = Head(ids)
                THEN formatIds ELSE Append(formatIds, Head(ids)),
              Tail(ids))

formatColumns == <<"closed", "format1", "format2", "format3", "format4", "format5">>

\* the format ids of a row and the warnings pushed while resolving them
mapFormats(formats, nawsRow, rowIndex) ==
  LET wchrFormats == formatIdsFor(formats, <<"W","C","H","R">>)
      wheelchair ==
        IF toLowerCase(nawsRow.wheelchr) = <<"t","r","u","e">> \/ nawsRow.wheelchr = <<"1">>
          THEN IF wchrFormats # <<>>
                 THEN [formatIds |-> wchrFormats, warnings |-> <<>>]
                 ELSE [formatIds |-> <<>>,
                       warnings |-> << [row |-> rowIndex, msg |-> "Wheelchair format (WCHR) not found",
                                        arg |-> <<>>] >>]
        ELSE [formatIds |-> <<>>, warnings |-> <<>>]
      F[k \in 0..Len(formatColumns)] ==
        IF k = 0 THEN wheelchair
        ELSE LET acc == F[k - 1]
                 formatValue == nawsRow[formatColumns[k]]
                 found == formatIdsFor(formats, toUpperCase(formatValue))
             IN IF Truthy(formatValue) /\ Truthy(trim(formatValue))
                  THEN IF found # <<>>
                         THEN [acc EXCEPT !.formatIds = addAll(@, found)]
                         ELSE [acc EXCEPT !.warnings =
                                 Append(@, [row |-> rowIndex, msg |-> "Format not found in column",
                                            arg |-> formatValue, column |-> formatColumns[k]])]
                ELSE acc
  IN F[Len(formatColumns)]

VENUE_TYPE_IN_PERSON == 1
VENUE_TYPE_VIRTUAL == 2
VENUE_TYPE_HYBRID == 3

determineVenueType(nawsRow) ==
  LET hasPhysicalLocation == Truthy(trim(nawsRow.address)) \/ Truthy(trim(nawsRow.city))
      hasVirtualInfo == Truthy(trim(nawsRow.virtualmeetinglink)) \/ Truthy(trim(nawsRow.phonemeetingnumber))
  IN IF hasPhysicalLocation /\ hasVirtualInfo THEN VENUE_TYPE_HYBRID
     ELSE IF hasVirtualInfo THEN VENUE_TYPE_VIRTUAL
     ELSE VENUE_TYPE_IN_PERSON

mapNAWSRowToMeeting(serviceBodies, formats, nawsRow, rowIndex) ==
  LET none(errs) == [meeting |-> NoMeeting, errors |-> errs, warnings |-> <<>>]
      formatResult == mapFormats(formats, nawsRow, rowIndex)
      serviceBodyId == serviceBodyIdFor(serviceBodies, toUpperCase(nawsRow.arearegion))
  IN IF isDeleted(nawsRow) THEN none(<<>>)
     ELSE IF ~Truthy(trim(nawsRow.committeename))
       THEN none(<< [row |-> rowIndex, msg |-> "Missing meeting name (committeename)", arg |-> <<>>] >>)
     ELSE IF ~Truthy(trim(nawsRow.arearegion))
       THEN none(<< [row |-> rowIndex, msg |-> "Missing area/region (arearegion)", arg |-> <<>>] >>)
     ELSE IF ~Truthy(trim(nawsRow.day))
       THEN none(<< [row |-> rowIndex, msg |-> "Missing day", arg |-> <<>>] >>)
     ELSE IF ~Truthy(trim(nawsRow.time))
       THEN none(<< [row |-> rowIndex, msg |-> "Missing time", arg |-> <<>>] >>)
     ELSE IF serviceBodyId = 0
       THEN none(<< [row |-> rowIndex, msg |-> "Service body not found for area/region", arg |-> nawsRow.arearegion] >>)
     ELSE [meeting |-> [serviceBodyId |-> serviceBodyId,
                        formatIds |-> formatResult.formatIds,
                        venueType |-> determineVenueType(nawsRow),
                        day |-> mapDayToBMLT(nawsRow.day),
                        startTime |-> formatTimeForBMLT(nawsRow.time),
                        worldId |-> nawsRow.committee,
                        name |-> nawsRow.committeename],
           errors |-> <<>>, warnings |-> formatResult.warnings]

(***************************************************************************)
(* ServiceBodyCreator: pure parts                                          *)
(***************************************************************************)
\* mutant of extractUniqueAreas: a later row with the same code replaces the name
extractUniqueAreas_lastWins(nawsRows) ==
  LET visited == [k \in 1..Len(nawsRows) |->
                    LET worldId == trim(nawsRows[k].arearegion)
                        name == trim(nawsRows[k].parentname)
                    IN [k |-> k, worldId |-> toUpperCase(worldId), name |-> name,
                        named |-> ~isDeleted(nawsRows[k]) /\ Truthy(worldId) /\ Truthy(name)]]
      has(v) == \E q \in 1..(v.k - 1) : visited[q].named /\ visited[q].worldId = v.worldId
      last(v) == CHOOSE q \in 1..Len(visited) :
                   /\ visited[q].named /\ visited[q].worldId = v.worldId
                   /\ \A r \in (q + 1)..Len(visited) :
                        ~(visited[r].named /\ visited[r].worldId = v.worldId)
      uniqueAreas == SelectSeq(visited, LAMBDA v : v.named /\ ~has(v))
  IN [j \in DOMAIN uniqueAreas |->
        [worldId |-> uniqueAreas[j].worldId, name |-> visited[last(uniqueAreas[j])].name]]

\* mutant of extractUniqueAreas: an entry keeps the spelling of the code of its first row
extractUniqueAreas_keepsSpelling(nawsRows) ==
  LET visited == [k \in 1..Len(nawsRows) |->
                    LET worldId == trim(nawsRows[k].arearegion)
                        name == trim(nawsRows[k].parentname)
                    IN [k |-> k, worldId |-> toUpperCase(worldId), spelled |-> worldId, name |-> name,
                        named |-> ~isDeleted(nawsRows[k]) /\ Truthy(worldId) /\ Truthy(name)]]
      has(v) == \E q \in 1..(v.k - 1) : visited[q].named /\ visited[q].worldId = v.worldId
      uniqueAreas == SelectSeq(visited, LAMBDA v : v.named /\ ~has(v))
  IN [j \in DOMAIN uniqueAreas |->
        [worldId |-> uniqueAreas[j].spelled, name |-> uniqueAreas[j].name]]

extractUniqueAreas(nawsRows) ==
  LET visited == [k \in 1..Len(nawsRows) |->
                    LET worldId == trim(nawsRows[k].arearegion)
                        name == trim(nawsRows[k].parentname)
                    IN [k |-> k, worldId |-> toUpperCase(worldId), name |-> name,
                        named |-> ~isDeleted(nawsRows[k]) /\ Truthy(worldId) /\ Truthy(name)]]
      \* uniqueAreas.has(normalizedWorldId): an earlier row set the entry
      has(v) == \E q \in 1..(v.k - 1) : visited[q].named /\ visited[q].worldId = v.worldId
      uniqueAreas == SelectSeq(visited, LAMBDA v : v.named /\ ~has(v))
  IN [j \in DOMAIN uniqueAreas |->
        [worldId |-> uniqueAreas[j].worldId, name |-> uniqueAreas[j].name]]

\* Array.prototype.filter
SeqFilter(seq, Keep(_)) == SelectSeq(seq, Keep)

findMissingServiceBodies(requiredAreas, existingServiceBodies) ==
  LET existingIds == {toUpperCase(existingServiceBodies[k].worldId) :
                        k \in {m \in 1..Len(existingServiceBodies) : Truthy(existingServiceBodies[m].worldId)}}
      missing(area) == toUpperCase(area.worldId) \notin existingIds
  IN SeqFilter(requiredAreas, missing)

\* existingServiceBodies.find(sb => sb.worldId && upper(sb.worldId) === upper(worldId))
findExistingServiceBody(existingServiceBodies, worldId) ==
  LET hits == {k \in 1..Len(existingServiceBodies) :
                 /\ Truthy(existingServiceBodies[k].worldId)
                 /\ toUpperCase(existingServiceBodies[k].worldId) = toUpperCase(worldId)}
  IN IF hits = {} THEN NoServiceBody
     ELSE existingServiceBodies[CHOOSE k \in hits : \A m \in hits : k <= m]

determineServiceBodyType(worldId) ==
  IF Len(worldId) >= 2 /\ SubSeq(toUpperCase(worldId), 1, 2) = <<"A","R">> THEN "AS" ELSE "RS"

(***************************************************************************)
(* Inputs: spreadsheet rows, files, and the remote server                  *)
(***************************************************************************)
RowCells == Len(EXPECTED_COLUMNS)

\* a well-formed row of an existing area (server body 'AR1'), new external code
GoodRow ==
  [length |-> RowCells, delete |-> <<>>, parentname |-> <<"A","1">>,
   committee |-> <<"G","1">>, committeename |-> <<"M">>,
   arearegion |-> <<"a","r","1">>, day |-> <<"M","o","n","d","a","y">>,
   time |-> <<"1","9","3","0">>,
   address |-> <<"1"," ","M","a","i","n">>, city |-> <<"T","o","w","n">>,
   closed |-> <<"o">>, wheelchr |-> <<>>, format1 |-> <<>>, format2 |-> <<>>,
   format3 |-> <<>>, format4 |-> <<>>, format5 |-> <<>>, room |-> <<>>,
   phonemeetingnumber |-> <<>>, virtualmeetinglink |-> <<>>, timezone |-> <<>>]
EmptyRow == [GoodRow EXCEPT !.length = 0]
DeletedRow == [GoodRow EXCEPT !.delete = <<"d">>]
NoNameRow == [GoodRow EXCEPT !.committeename = <<" ">>]
NoAreaRow == [GoodRow EXCEPT !.arearegion = <<>>]
NoDayRow == [GoodRow EXCEPT !.day = <<" ">>]
NoTimeRow == [GoodRow EXCEPT !.time = <<>>]
BadDayRow == [GoodRow EXCEPT !.day = <<"F","u","n">>]
BadTimeRow == [GoodRow EXCEPT !.time = <<"2","5","6","0">>]
\* external code of a meeting the server already has
DupRow == [GoodRow EXCEPT !.committee = <<"G","7">>]
\* area the server lacks: created during reconciliation
NewAreaRow == [GoodRow EXCEPT !.arearegion = <<"A","R","2">>, !.parentname = <<"A","2">>]
\* area the server lacks and refuses to create
FailAreaRow == [GoodRow EXCEPT !.arearegion = <<"r","g","9">>, !.parentname = <<"R","9">>]
\* meeting the server refuses to create
RejectedRow == [GoodRow EXCEPT !.committee = <<"G","9">>]

RowKinds == {GoodRow, EmptyRow, DeletedRow, NoNameRow, NoAreaRow, NoDayRow, NoTimeRow,
             BadDayRow, BadTimeRow,
             DupRow, NewAreaRow, FailAreaRow, RejectedRow}

\* the 10-row file of the end-to-end example: 2 delete-flagged rows, 1 row
\* without a name, 7 valid rows
ExampleFile ==
  <<GoodRow, DeletedRow, DupRow, GoodRow, NoNameRow, NewAreaRow, RejectedRow,
    DeletedRow, GoodRow, GoodRow>>

SmallFiles == UNION {[1..n -> RowKinds] : n \in 0..MaxRows}
BulkFiles == {[k \in 1..n |-> r] : n \in 0..MaxBulkRows, r \in RowKinds}

\* header rows: complete, lacking an optional column, lacking required columns
HeaderChoices == {AllHeaders, AllHeaders \ {"room"}, AllHeaders \ {"day", "time"}}

\* what the environment does during the run: nothing special, one remote call
\* (or the token lookup) that fails, or another actor creating service bodies
Scenarios == {"none", "file", "config", "findMissing", "sbList", "token", "getUser",
              "refetch", "getMeetings", "otherActor"}

\* the rows of the files the scenarios other than "none" are explored on
ScenarioKinds == {GoodRow, DupRow, NewAreaRow, FailAreaRow}
ScenarioFiles == UNION {[1..n -> ScenarioKinds] : n \in 0..MaxRows}

\* the formats the server lists: open, closed, wheelchair, virtual meeting
ServerFormats ==
  << [id |-> 1, worldId |-> <<"O">>], [id |-> 2, worldId |-> <<"C">>],
     [id |-> 3, worldId |-> <<"W","C","H","R">>], [id |-> 4, worldId |-> <<"V","M">>] >>

InitialServiceBodies == << [id |-> 1, worldId |-> <<"A","R","1">>, adminUserId |-> 1] >>
\* worldIds of the meetings the server holds before the run
InitialMeetingWorldIds == << <<"g","7"," ">>, <<>>, <<"g","7">> >>
\* createServiceBody fails for these worldIds, createMeeting for these
RejectedBodyIds == { <<"R","G","9">> }
RejectedMeetingIds == { <<"G","9">> }
\* RootServerApi.token.userId of the logged-in user; 0 stands for undefined
CurrentUserId == 1
\* admin users another actor gives to a service body it creates; user 3 does not exist
OtherAdminIds == {2, 3}
ExistingUserIds == {1, 2}

(***************************************************************************)
(* State                                                                   *)
(***************************************************************************)
VARIABLES
  file,                 \* the spreadsheet: [headers, data]
  scenario,             \* what the environment does in this run
  abortSignal,          \* abortSignal.aborted
  pc,                   \* the await importFromFile is suspended at, or "done"
  processedSpreadsheet, \* result of SpreadsheetProcessor.processFile
  result,               \* the ImportResult under construction / returned
  events,               \* the progress events passed to onProgress, in order
  serverBodies,         \* the service bodies held by the remote server
  recon,                \* locals of createMissingServiceBodies
  updatedServiceBodies, \* the list the submission mapper is built from
  existingWorldIds,     \* result of getExistingMeetingWorldIds
  engine,               \* locals of createMeetingsInBatches
  batchResults,         \* results of the promises of the current batch
  inflight,             \* valid-row indices whose createMeeting call is pending
  issued,               \* valid-row indices createMeeting was invoked for, in order
  created,              \* valid-row indices whose createMeeting returned a meeting
  outcomeLog,           \* (valid-row index, outcome, row numbers of its messages) in aggregation order
  delays,               \* number of pacing delays started
  batches,              \* number of batches started
  remoteCalls,          \* the RootServerApi operations invoked so far
  call,                 \* a direct call of a function of the library: name and arguments
  returned              \* what that call returned

vars == <<file, scenario, abortSignal, pc, processedSpreadsheet, result, events,
          serverBodies, recon, updatedServiceBodies, existingWorldIds, engine,
          batchResults, inflight, issued, created, outcomeLog, delays, batches,
          remoteCalls, call, returned>>

(***************************************************************************)
(* MeetingImportService constants                                          *)
(***************************************************************************)
BATCH_SIZE == 5
MAX_STORED_MEETINGS == 10
MAX_STORED_ERRORS == 50

Event(phase, step, message, base, span, current, total) ==
  [phase |-> phase, currentStep |-> step, message |-> message,
   base |-> base, span |-> span, current |-> current, total |-> total]

\* onProgress is called with each of these events, in order
emit(emitted) == events' = events \o emitted

\* the event onProgress was last called with
progress == events[Len(events)]

\* the RootServerApi operations invoked on the way to the await at position p
awaitedCalls(p, pendingCalls) ==
  CASE p = "fetchConfig" -> {"getServiceBodies", "getFormats"}
    [] p \in {"findMissing", "sbList", "refetch"} -> {"getServiceBodies"}
    [] p \in {"sbPrincipal", "sbCurrentUser"} -> {"getUser"}
    [] p = "sbCreate" -> {"createServiceBody"}
    [] p = "getMeetings" -> {"getMeetings"}
    [] p = "batch" /\ pendingCalls # {} -> {"createMeeting"}
    [] OTHER -> {}

\* Date.now() - startTime, in units of one pacing delay: the file read takes
\* one unit, every pacing delay one more
elapsed == 1 + delays

Err(msg) == [row |-> 0, msg |-> msg, arg |-> <<>>]
CancelNotice == Err("Import cancelled by user")

NoSpreadsheet == [rows |-> <<>>, totalRows |-> 0, validRows |-> 0, errors |-> <<>>, warnings |-> <<>>]
NoRecon == [required |-> <<>>, missing |-> <<>>, i |-> 0, totalProcessed |-> 0, servicesBodiesCreated |-> 0,
            errors |-> <<>>, existing |-> NoServiceBody]
NoEngine == [validRows |-> <<>>, i |-> 0, successful |-> <<>>, successfulCount |-> 0,
             failed |-> 0, skipped |-> 0, errors |-> <<>>, processedCount |-> 0]

\* no direct call of a library function is made during an import run
NoCall == [fn |-> "none"]
NotReturned == [done |-> FALSE]

Init ==
  /\ file \in [headers : HeaderChoices, data : SmallFiles \cup BulkFiles \cup {ExampleFile}]
  /\ scenario \in Scenarios
  /\ scenario # "none" => (file.data \in ScenarioFiles /\ file.headers = AllHeaders)
  /\ file.headers # AllHeaders => Len(file.data) <= MaxRows
  /\ abortSignal = FALSE
  /\ pc = "readFile"
  /\ processedSpreadsheet = NoSpreadsheet
  /\ result = [success |-> FALSE, totalProcessed |-> 0, successfulImports |-> 0,
               failedImports |-> 0, skippedImports |-> 0, servicesBodiesCreated |-> 0,
               errors |-> <<>>, warnings |-> <<>>, createdMeetings |-> <<>>,
               duration |-> 0]
  /\ events = << Event("processing", 1, "Processing spreadsheet file...", 0, 0, 0, 1),
                 Event("processing", 1, "Reading file...", 0, 0, 0, 1) >>
  /\ serverBodies = InitialServiceBodies
  /\ recon = NoRecon
  /\ updatedServiceBodies = <<>>
  /\ existingWorldIds = {}
  /\ engine = NoEngine
  /\ batchResults = <<>>
  /\ inflight = {}
  /\ issued = <<>>
  /\ created = {}
  /\ outcomeLog = <<>>
  /\ delays = 0
  /\ batches = 0
  /\ remoteCalls = {}
  /\ call = NoCall
  /\ returned = NotReturned

(***************************************************************************)
(* MeetingImportService.importFromFile: the catch block                    *)
(***************************************************************************)
\* mutant of aborted: the signal is never consulted
aborted_never == FALSE

\* abortSignal?.aborted
aborted == abortSignal

\* mutant of Throw: the catch block reports the event and returns the result
\* as it stood when the error was thrown
Throw_resultUntouched(res, err) ==
  /\ result' = res
  /\ emit(<< Event("error", 0,
                       IF err = "AbortError" THEN "Import cancelled" ELSE "Import failed",
                       0, 0, 0, 1) >>)
  /\ pc' = "done"

\* the catch block: the error is appended to result.errors, an 'error'
\* progress event is emitted and the result is returned
Throw(res, err) ==
  /\ result' = [res EXCEPT !.errors =
                  Append(@, IF err = "AbortError" THEN CancelNotice ELSE Err(err)),
                           !.duration = elapsed]
  /\ emit(<< Event("error", 0,
                       IF err = "AbortError" THEN "Import cancelled" ELSE "Import failed",
                       0, 0, 0, 1) >>)
  /\ pc' = "done"

(***************************************************************************)
(* Phases 1-3: file processing and server configuration                    *)
(***************************************************************************)
\* SpreadsheetProcessor.processFile: file.arrayBuffer() settles, the workbook
\* is parsed and validated
ReadFile ==
  /\ pc = "readFile"
  /\ IF scenario = "file"
       THEN UNCHANGED <<processedSpreadsheet, events>>
       ELSE /\ processedSpreadsheet' = validateAndProcess(file)
            /\ emit(<< Event("processing", 1, "Parsing spreadsheet...", 0, 0, 0, 1),
                       Event("processing", 1, "Processing data...", 0, 0, 0, 1),
                       Event("processing", 1, "Validating and processing...", 0, 0, 0, 1) >>)
  /\ pc' = "processFile"
  /\ UNCHANGED <<file, scenario, abortSignal, result, serverBodies, recon,
                 updatedServiceBodies, existingWorldIds, engine, batchResults, inflight,
                 issued, created, outcomeLog, delays, batches, remoteCalls>>
  /\ UNCHANGED <<call, returned>>

\* mutant of ProcessFile: the errors of the validator do not stop the run
ProcessFile_ignoresErrors ==
  /\ pc = "processFile"
  /\ IF scenario = "file"
       THEN Throw(result, "Error processing spreadsheet")
       ELSE LET p == processedSpreadsheet
            IN /\ IF aborted THEN Throw(result, "AbortError")
                  ELSE /\ result' = [result EXCEPT !.warnings = @ \o p.warnings,
                                                   !.totalProcessed = p.validRows]
                       /\ emit(<< Event("validating", 2, "Fetching server configuration...", 15, 0, 0, 1) >>)
                       /\ pc' = "fetchConfig"
  /\ UNCHANGED <<file, scenario, abortSignal, processedSpreadsheet, serverBodies, recon,
                 updatedServiceBodies, existingWorldIds, engine, batchResults, inflight,
                 issued, created, outcomeLog, delays, batches>>
  /\ remoteCalls' = remoteCalls \cup awaitedCalls(pc', inflight')
  /\ UNCHANGED <<call, returned>>

\* importFromFile resumes from the await of processFile
ProcessFile ==
  /\ pc = "processFile"
  /\ IF scenario = "file"
       THEN Throw(result, "Error processing spreadsheet")
       ELSE LET p == processedSpreadsheet
            IN /\ IF aborted THEN Throw(result, "AbortError")
                  ELSE IF Len(p.errors) > 0
                    THEN Throw([result EXCEPT !.errors = @ \o p.errors],
                               "Spreadsheet processing failed")
                  ELSE /\ result' = [result EXCEPT !.warnings = @ \o p.warnings,
                                                   !.totalProcessed = p.validRows]
                       /\ emit(<< Event("validating", 2, "Fetching server configuration...", 15, 0, 0, 1) >>)
                       /\ pc' = "fetchConfig"
  /\ UNCHANGED <<file, scenario, abortSignal, processedSpreadsheet, serverBodies, recon,
                 updatedServiceBodies, existingWorldIds, engine, batchResults, inflight,
                 issued, created, outcomeLog, delays, batches>>
  /\ remoteCalls' = remoteCalls \cup awaitedCalls(pc', inflight')
  /\ UNCHANGED <<call, returned>>

FetchConfig ==
  /\ pc = "fetchConfig"
  /\ IF scenario = "config"
       THEN Throw(result, "Failed to fetch server configuration") /\ UNCHANGED recon
     ELSE IF aborted
       THEN Throw(result, "AbortError") /\ UNCHANGED recon
     ELSE /\ recon' = [NoRecon EXCEPT !.required = extractUniqueAreas(processedSpreadsheet.rows)]
          /\ emit(<< Event("mapping", 3, "Validating data mapping...", 30, 0, 0, 1),
                     Event("service-bodies", 4, "Creating missing service bodies...", 45, 0, 0, 1) >>)
          /\ pc' = "findMissing"
          /\ UNCHANGED result
  /\ UNCHANGED <<file, scenario, abortSignal, processedSpreadsheet, serverBodies,
                 updatedServiceBodies, existingWorldIds, engine, batchResults, inflight,
                 issued, created, outcomeLog, delays, batches>>
  /\ remoteCalls' = remoteCalls \cup awaitedCalls(pc', inflight')
  /\ UNCHANGED <<call, returned>>

(***************************************************************************)
(* Phase 4: ServiceBodyCreator.createMissingServiceBodies                  *)
(***************************************************************************)
currentArea(r) == r.missing[r.i]

\* mutant of AdvanceEntry: the loop consults the abort signal between entries
AdvanceEntry_checksAbort(r) ==
  IF aborted
    THEN /\ recon' = r
         /\ Throw(result, "AbortError")
  ELSE IF r.i < Len(r.missing)
    THEN /\ recon' = [r EXCEPT !.i = @ + 1, !.totalProcessed = @ + 1, !.existing = NoServiceBody]
         /\ emit(<< Event("service-bodies", 4, "Creating service body", 45, 10,
                              r.i + 1, Len(r.missing)) >>)
         /\ pc' = "sbList"
         /\ UNCHANGED result
    ELSE /\ recon' = r
         /\ result' = [result EXCEPT
                         !.servicesBodiesCreated = r.servicesBodiesCreated,
                         !.errors = @ \o r.errors,
                         !.warnings = IF r.servicesBodiesCreated > 0
                                        THEN Append(@, [row |-> 0, msg |-> "Created service bodies",
                                                        arg |-> numToString(r.servicesBodiesCreated)])
                                        ELSE @]
         /\ pc' = "refetch"
         /\ UNCHANGED events

\* the loop of createMissingServiceBodies moves to the next entry, or returns
\* and importFromFile merges the statistics and re-fetches the service bodies
AdvanceEntry(r) ==
  IF r.i < Len(r.missing)
    THEN /\ recon' = [r EXCEPT !.i = @ + 1, !.totalProcessed = @ + 1, !.existing = NoServiceBody]
         /\ emit(<< Event("service-bodies", 4, "Creating service body", 45, 10,
                              r.i + 1, Len(r.missing)) >>)
         /\ pc' = "sbList"
         /\ UNCHANGED result
    ELSE /\ recon' = r
         /\ result' = [result EXCEPT
                         !.servicesBodiesCreated = r.servicesBodiesCreated,
                         !.errors = @ \o r.errors,
                         !.warnings = IF r.servicesBodiesCreated > 0
                                        THEN Append(@, [row |-> 0, msg |-> "Created service bodies",
                                                        arg |-> numToString(r.servicesBodiesCreated)])
                                        ELSE @]
         /\ pc' = "refetch"
         /\ UNCHANGED events

\* mutant of EntryError: the error of an entry ends the loop
EntryError_stops(r, reason) ==
  /\ recon' = [r EXCEPT !.errors =
                  Append(@, [row |-> 0, msg |-> reason, arg |-> currentArea(r).worldId])]
  /\ result' = [result EXCEPT
                  !.servicesBodiesCreated = r.servicesBodiesCreated,
                  !.errors = Append(@, [row |-> 0, msg |-> reason, arg |-> currentArea(r).worldId])]
  /\ pc' = "refetch"
  /\ UNCHANGED events

\* the catch of the loop body: one error string for the entry, the loop goes on
EntryError(r, reason) ==
  AdvanceEntry([r EXCEPT !.errors =
                  Append(@, [row |-> 0, msg |-> reason, arg |-> currentArea(r).worldId])])

\* createServiceBodyWithUser, from 'Get the current user' on
CurrentUserStep(r) ==
  IF scenario = "token"
    THEN EntryError(r, "Failed to get current user for service body admin")
    ELSE /\ recon' = r
         /\ pc' = "sbCurrentUser"
         /\ UNCHANGED <<result, events>>

FindMissing ==
  /\ pc = "findMissing"
  /\ IF scenario = "findMissing"
       THEN Throw(result, "Failed to fetch service bodies") /\ UNCHANGED recon
       ELSE LET missing == findMissingServiceBodies(recon.required, serverBodies)
            IN IF Len(missing) > 0
                 THEN /\ recon' = [recon EXCEPT !.missing = missing, !.i = 1, !.totalProcessed = 1]
                      /\ emit(<< Event("service-bodies", 4, "Creating service body", 45, 10,
                                           1, Len(missing)) >>)
                      /\ pc' = "sbList"
                      /\ UNCHANGED result
                 ELSE /\ result' = [result EXCEPT !.warnings =
                                      Append(@, Err("All required service bodies already exist"))]
                      /\ pc' = "refetch"
                      /\ UNCHANGED <<recon, events>>
  /\ UNCHANGED <<file, scenario, abortSignal, processedSpreadsheet, serverBodies,
                 updatedServiceBodies, existingWorldIds, engine, batchResults, inflight,
                 issued, created, outcomeLog, delays, batches>>
  /\ remoteCalls' = remoteCalls \cup awaitedCalls(pc', inflight')
  /\ UNCHANGED <<call, returned>>

\* mutant of SbList: existence is checked on the list fetched before the run
SbList_stale ==
  /\ pc = "sbList"
  /\ IF scenario = "sbList"
       THEN EntryError(recon, "Failed to fetch service bodies")
       ELSE LET existing == findExistingServiceBody(InitialServiceBodies, currentArea(recon).worldId)
                r == [recon EXCEPT !.existing = existing]
            IN IF existing # NoServiceBody
                 THEN /\ recon' = r
                      /\ pc' = "sbPrincipal"
                      /\ UNCHANGED <<result, events>>
                 ELSE CurrentUserStep(r)
  /\ UNCHANGED <<file, scenario, abortSignal, processedSpreadsheet, serverBodies,
                 updatedServiceBodies, existingWorldIds, engine, batchResults, inflight,
                 issued, created, outcomeLog, delays, batches>>
  /\ remoteCalls' = remoteCalls \cup awaitedCalls(pc', inflight')
  /\ UNCHANGED <<call, returned>>

\* createServiceBodyWithUser: the re-fetched list arrives
SbList ==
  /\ pc = "sbList"
  /\ IF scenario = "sbList"
       THEN EntryError(recon, "Failed to fetch service bodies")
       ELSE LET existing == findExistingServiceBody(serverBodies, currentArea(recon).worldId)
                r == [recon EXCEPT !.existing = existing]
            IN IF existing # NoServiceBody
                 THEN /\ recon' = r
                      /\ pc' = "sbPrincipal"
                      /\ UNCHANGED <<result, events>>
                 ELSE CurrentUserStep(r)
  /\ UNCHANGED <<file, scenario, abortSignal, processedSpreadsheet, serverBodies,
                 updatedServiceBodies, existingWorldIds, engine, batchResults, inflight,
                 issued, created, outcomeLog, delays, batches>>
  /\ remoteCalls' = remoteCalls \cup awaitedCalls(pc', inflight')
  /\ UNCHANGED <<call, returned>>

\* getUser(existingServiceBody.adminUserId) settles
SbPrincipal ==
  /\ pc = "sbPrincipal"
  /\ IF scenario # "getUser" /\ recon.existing.adminUserId \in ExistingUserIds
       THEN AdvanceEntry(recon)
       ELSE CurrentUserStep(recon)
  /\ UNCHANGED <<file, scenario, abortSignal, processedSpreadsheet, serverBodies,
                 updatedServiceBodies, existingWorldIds, engine, batchResults, inflight,
                 issued, created, outcomeLog, delays, batches>>
  /\ remoteCalls' = remoteCalls \cup awaitedCalls(pc', inflight')
  /\ UNCHANGED <<call, returned>>

\* getUser(currentUserId) settles
SbCurrentUser ==
  /\ pc = "sbCurrentUser"
  /\ IF scenario = "getUser"
       THEN EntryError(recon, "Failed to get current user for service body admin")
     ELSE IF recon.existing # NoServiceBody
       THEN AdvanceEntry(recon)
     ELSE /\ pc' = "sbCreate"
          /\ UNCHANGED <<recon, result, events>>
  /\ UNCHANGED <<file, scenario, abortSignal, processedSpreadsheet, serverBodies,
                 updatedServiceBodies, existingWorldIds, engine, batchResults, inflight,
                 issued, created, outcomeLog, delays, batches>>
  /\ remoteCalls' = remoteCalls \cup awaitedCalls(pc', inflight')
  /\ UNCHANGED <<call, returned>>

\* createServiceBody settles
SbCreate ==
  /\ pc = "sbCreate"
  /\ IF currentArea(recon).worldId \in RejectedBodyIds
       THEN /\ EntryError(recon, "Failed to create service body")
            /\ UNCHANGED serverBodies
       ELSE /\ serverBodies' = Append(serverBodies,
                                      [id |-> Len(serverBodies) + 1,
                                       worldId |-> currentArea(recon).worldId,
                                       adminUserId |-> CurrentUserId])
            /\ AdvanceEntry([recon EXCEPT !.servicesBodiesCreated = @ + 1])
  /\ UNCHANGED <<file, scenario, abortSignal, processedSpreadsheet,
                 updatedServiceBodies, existingWorldIds, engine, batchResults, inflight,
                 issued, created, outcomeLog, delays, batches>>
  /\ remoteCalls' = remoteCalls \cup awaitedCalls(pc', inflight')
  /\ UNCHANGED <<call, returned>>

\* another actor creates the service body of the entry whose existence is
\* about to be re-checked (at most once per run)
OtherActorCreates ==
  /\ scenario = "otherActor"
  /\ pc = "sbList"
  /\ \A k \in 1..Len(serverBodies) : serverBodies[k].adminUserId \notin OtherAdminIds
  /\ \E admin \in OtherAdminIds :
       serverBodies' = Append(serverBodies,
                              [id |-> Len(serverBodies) + 1,
                               worldId |-> currentArea(recon).worldId,
                               adminUserId |-> admin])
  /\ UNCHANGED <<file, scenario, abortSignal, pc, processedSpreadsheet, result, events,
                 recon, updatedServiceBodies, existingWorldIds, engine, batchResults,
                 inflight, issued, created, outcomeLog, delays, batches,
                 remoteCalls>>
  /\ UNCHANGED <<call, returned>>

(***************************************************************************)
(* Phase 5: duplicate check and MeetingImportService.createMeetingsInBatches *)
(***************************************************************************)
\* mutant of worldIdSet: the worldIds are kept in the case the server sent
worldIdSet_caseSensitive(meetingWorldIds) ==
  {trim(meetingWorldIds[k]) :
     k \in {m \in 1..Len(meetingWorldIds) :
              Truthy(meetingWorldIds[m]) /\ Truthy(trim(meetingWorldIds[m]))}}

\* getExistingMeetingWorldIds over the meetings the server returns
worldIdSet(meetingWorldIds) ==
  {toUpperCase(trim(meetingWorldIds[k])) :
     k \in {m \in 1..Len(meetingWorldIds) :
              Truthy(meetingWorldIds[m]) /\ Truthy(trim(meetingWorldIds[m]))}}

\* the filter that selects the rows to submit
passesSubmissionFilter(row) ==
  /\ toUpperCase(row.delete) # <<"D">>
  /\ Truthy(trim(row.committeename))
  /\ Truthy(trim(row.arearegion))
  /\ Truthy(trim(row.day))
  /\ Truthy(trim(row.time))

\* mutant of batchSlice: the slice is one row too long
batchSlice_long(validRows, i) ==
  SubSeq(validRows, i + 1, IF i + BATCH_SIZE + 1 < Len(validRows) THEN i + BATCH_SIZE + 1 ELSE Len(validRows))

\* validRows.slice(i, i + BATCH_SIZE), i counted from 0
batchSlice(validRows, i) ==
  SubSeq(validRows, i + 1, IF i + BATCH_SIZE < Len(validRows) THEN i + BATCH_SIZE ELSE Len(validRows))

\* mutant of nextBatchStart: consecutive batches overlap by one row
nextBatchStart_overlap(i) == i + BATCH_SIZE - 1

\* i += BATCH_SIZE
nextBatchStart(i) == i + BATCH_SIZE

\* rowIndex = i + batchIndex + 2
rowIndexOf(i, batchIndex) == i + batchIndex + 2

Pending(request) ==
  [pending |-> TRUE, success |-> FALSE, skipped |-> FALSE, meeting |-> request, errors |-> <<>>]
Settled(success, skipped, meeting, errors) ==
  [pending |-> FALSE, success |-> success, skipped |-> skipped, meeting |-> meeting, errors |-> errors]

\* the body of the async callback of batch.map up to its first await: the
\* duplicate check, the mapping, and the createMeeting call
startRow(existingIds, serviceBodies, row, rowIndex) ==
  LET worldId == trim(row.committee)
      mappingResult == mapNAWSRowToMeeting(serviceBodies, ServerFormats, row, rowIndex)
  IN IF Truthy(worldId) /\ toUpperCase(worldId) \in existingIds
       THEN Settled(FALSE, TRUE, NoMeeting,
                    << [row |-> rowIndex, msg |-> "Meeting with worldId already exists - skipped",
                        arg |-> worldId] >>)
     ELSE IF mappingResult.meeting # NoMeeting
       THEN Pending(mappingResult.meeting)
     ELSE Settled(FALSE, FALSE, NoMeeting,
                  IF Len(mappingResult.errors) > 0 THEN mappingResult.errors
                  ELSE << [row |-> rowIndex, msg |-> "Failed to map meeting data", arg |-> <<>>] >>)

\* mutant of aggregateOne: a success is counted only when its meeting is stored
aggregateOne_countStored(eng, batchResult) ==
  LET counted ==
        IF batchResult.success /\ batchResult.meeting # NoMeeting
          THEN IF Len(eng.successful) < MAX_STORED_MEETINGS
                 THEN [eng EXCEPT !.successfulCount = @ + 1,
                                  !.successful = Append(@, batchResult.meeting)]
                 ELSE eng
        ELSE IF batchResult.skipped THEN [eng EXCEPT !.skipped = @ + 1]
        ELSE [eng EXCEPT !.failed = @ + 1]
      room == MAX_STORED_ERRORS - Len(eng.errors)
      errorsToAdd == SubSeq(batchResult.errors, 1,
                            IF Len(batchResult.errors) < room THEN Len(batchResult.errors) ELSE room)
  IN [counted EXCEPT !.processedCount = @ + 1,
                     !.errors = IF Len(@) < MAX_STORED_ERRORS THEN @ \o errorsToAdd ELSE @]

\* one iteration of batchResults.forEach
aggregateOne(eng, batchResult) ==
  LET counted ==
        IF batchResult.success /\ batchResult.meeting # NoMeeting
          THEN [eng EXCEPT !.successfulCount = @ + 1,
                           !.successful = IF Len(@) < MAX_STORED_MEETINGS
                                            THEN Append(@, batchResult.meeting) ELSE @]
        ELSE IF batchResult.skipped THEN [eng EXCEPT !.skipped = @ + 1]
        ELSE [eng EXCEPT !.failed = @ + 1]
      room == MAX_STORED_ERRORS - Len(eng.errors)
      errorsToAdd == SubSeq(batchResult.errors, 1,
                            IF Len(batchResult.errors) < room THEN Len(batchResult.errors) ELSE room)
  IN [counted EXCEPT !.processedCount = @ + 1,
                     !.errors = IF Len(@) < MAX_STORED_ERRORS THEN @ \o errorsToAdd ELSE @]

aggregate(eng, results) ==
  LET F[k \in 0..Len(results)] ==
        IF k = 0 THEN eng ELSE aggregateOne(F[k - 1], results[k])
  IN F[Len(results)]

outcomeKind(batchResult) ==
  IF batchResult.success /\ batchResult.meeting # NoMeeting THEN "success"
  ELSE IF batchResult.skipped THEN "skipped" ELSE "failed"

\* mutant of allSettled: the loop goes on without waiting for the batch
allSettled_noWait == TRUE

\* Promise.all(batchPromises) resolves
allSettled == inflight = {}

\* the loop body from the slice to the await of Promise.all
LaunchBatch(eng, existingIds) ==
  LET batch == batchSlice(eng.validRows, eng.i)
      started == [b \in 1..Len(batch) |->
                    startRow(existingIds, updatedServiceBodies, batch[b], rowIndexOf(eng.i, b - 1))]
      calls == SeqFilter([b \in 1..Len(batch) |-> eng.i + b], LAMBDA j : started[j - eng.i].pending)
  IN /\ engine' = eng
     /\ batchResults' = started
     /\ inflight' = inflight \cup {calls[k] : k \in 1..Len(calls)}
     /\ issued' = issued \o calls
     /\ batches' = batches + 1
     /\ pc' = "batch"

\* createMeetingsInBatches returns and importFromFile completes
Complete(eng, emitted) ==
  /\ engine' = eng
  /\ result' = [result EXCEPT !.successfulImports = eng.successfulCount,
                              !.failedImports = eng.failed,
                              !.skippedImports = eng.skipped,
                              !.errors = @ \o eng.errors,
                              !.createdMeetings = eng.successful,
                              !.success = eng.successfulCount > 0,
                              !.duration = elapsed]
  /\ emit(emitted \o << Event("completed", 6, "Import completed", 100, 0, 0, 1) >>)
  /\ pc' = "done"

\* mutant of updatedMappingOptions: the mapper keeps the list fetched in phase 2
updatedMappingOptions_stale(refetched) == InitialServiceBodies

\* { ...mappingOptions, serviceBodies: updatedServiceBodies }
updatedMappingOptions(refetched) == refetched

\* mutant of getExistingMeetingWorldIds: the fetch result is used although the
\* fetch failed
getExistingMeetingWorldIds_noCatch == worldIdSet(InitialMeetingWorldIds)

\* getExistingMeetingWorldIds: the empty set when getMeetings fails
getExistingMeetingWorldIds ==
  IF scenario = "getMeetings" THEN {} ELSE worldIdSet(InitialMeetingWorldIds)

Refetch ==
  /\ pc = "refetch"
  /\ IF scenario = "refetch"
       THEN Throw(result, "Failed to fetch service bodies") /\ UNCHANGED updatedServiceBodies
       ELSE /\ updatedServiceBodies' = updatedMappingOptions(serverBodies)
            /\ emit(<< Event("creating", 5, "Checking for duplicate meetings...", 55, 0, 0, 1) >>)
            /\ pc' = "getMeetings"
            /\ UNCHANGED result
  /\ UNCHANGED <<file, scenario, abortSignal, processedSpreadsheet, serverBodies, recon,
                 existingWorldIds, engine, batchResults, inflight, issued, created,
                 outcomeLog, delays, batches>>
  /\ remoteCalls' = remoteCalls \cup awaitedCalls(pc', inflight')
  /\ UNCHANGED <<call, returned>>

\* getExistingMeetingWorldIds settles; the first batch is started
GetMeetings ==
  /\ pc = "getMeetings"
  /\ LET ids == getExistingMeetingWorldIds
         eng == [NoEngine EXCEPT !.validRows =
                   SeqFilter(processedSpreadsheet.rows, passesSubmissionFilter)]
     IN /\ existingWorldIds' = ids
        /\ IF aborted
             THEN /\ Throw(result, "AbortError")
                  /\ UNCHANGED <<engine, batchResults, inflight, issued, batches>>
           ELSE IF eng.i < Len(eng.validRows)
             THEN /\ LaunchBatch(eng, ids)
                  /\ emit(<< Event("creating", 5, "Creating meetings...", 60, 0, 0, 1) >>)
                  /\ UNCHANGED result
           ELSE /\ Complete(eng, << Event("creating", 5, "Creating meetings...", 60, 0, 0, 1) >>)
                /\ UNCHANGED <<batchResults, inflight, issued, batches>>
  /\ UNCHANGED <<file, scenario, abortSignal, processedSpreadsheet, serverBodies, recon,
                 updatedServiceBodies, created, outcomeLog, delays>>
  /\ remoteCalls' = remoteCalls \cup awaitedCalls(pc', inflight')
  /\ UNCHANGED <<call, returned>>

\* mutant of SettleCall: a rejected createMeeting call ends the run
SettleCall_fatal(j) ==
  /\ pc = "batch"
  /\ j \in inflight
  /\ j - engine.i \in DOMAIN batchResults
  /\ LET b == j - engine.i
         request == batchResults[b].meeting
     IN IF request.worldId \in RejectedMeetingIds
          THEN /\ Throw(result, "Failed to create meeting")
               /\ UNCHANGED <<batchResults, created>>
          ELSE /\ batchResults' = [batchResults EXCEPT ![b] = Settled(TRUE, FALSE, request, <<>>)]
               /\ created' = created \cup {j}
               /\ UNCHANGED <<pc, result, events>>
  /\ inflight' = inflight \ {j}
  /\ UNCHANGED <<file, scenario, abortSignal, processedSpreadsheet,
                 serverBodies, recon, updatedServiceBodies, existingWorldIds, engine,
                 issued, outcomeLog, delays, batches, remoteCalls>>
  /\ UNCHANGED <<call, returned>>

\* mutant of SettleCall: the results of a batch are collected in the order in
\* which the calls complete
SettleCall_completionOrder(j) ==
  /\ pc = "batch"
  /\ j \in inflight
  /\ j - engine.i \in DOMAIN batchResults
  /\ LET rank == Cardinality({k \in inflight : k <= j})
         b == CHOOSE p \in DOMAIN batchResults :
                /\ batchResults[p].pending
                /\ Cardinality({q \in 1..p : batchResults[q].pending}) = rank
         request == batchResults[b].meeting
         others == SubSeq(batchResults, 1, b - 1) \o SubSeq(batchResults, b + 1, Len(batchResults))
     IN IF request.worldId \in RejectedMeetingIds
          THEN /\ batchResults' = Append(others,
                     Settled(FALSE, FALSE, NoMeeting,
                             << [row |-> rowIndexOf(engine.i, j - engine.i - 1),
                                 msg |-> "Failed to create meeting", arg |-> <<>>] >>))
               /\ UNCHANGED created
          ELSE /\ batchResults' = Append(others, Settled(TRUE, FALSE, request, <<>>))
               /\ created' = created \cup {j}
  /\ inflight' = inflight \ {j}
  /\ UNCHANGED <<file, scenario, abortSignal, pc, processedSpreadsheet, result, events,
                 serverBodies, recon, updatedServiceBodies, existingWorldIds, engine,
                 issued, outcomeLog, delays, batches,
                 remoteCalls>>
  /\ UNCHANGED <<call, returned>>

\* the createMeeting call of valid row j settles
SettleCall(j) ==
  /\ pc = "batch"
  /\ j \in inflight
  /\ j - engine.i \in DOMAIN batchResults
  /\ LET b == j - engine.i
         request == batchResults[b].meeting
     IN IF request.worldId \in RejectedMeetingIds
          THEN /\ batchResults' = [batchResults EXCEPT ![b] =
                     Settled(FALSE, FALSE, NoMeeting,
                             << [row |-> rowIndexOf(engine.i, b - 1),
                                 msg |-> "Failed to create meeting", arg |-> <<>>] >>)]
               /\ UNCHANGED created
          ELSE /\ batchResults' = [batchResults EXCEPT ![b] = Settled(TRUE, FALSE, request, <<>>)]
               /\ created' = created \cup {j}
  /\ inflight' = inflight \ {j}
  /\ UNCHANGED <<file, scenario, abortSignal, pc, processedSpreadsheet, result, events,
                 serverBodies, recon, updatedServiceBodies, existingWorldIds, engine,
                 issued, outcomeLog, delays, batches,
                 remoteCalls>>
  /\ UNCHANGED <<call, returned>>

\* mutant of batchProgress: the submission's share starts at 55%
batchProgress_from55(current, total) ==
  Event("creating", 5, "Creating meeting", 55, 30, current, total)

\* the callback passed to createMeetingsInBatches: 60 + (current / total) * 30
batchProgress(current, total) ==
  Event("creating", 5, "Creating meeting", 60, 30, current, total)

\* mutant of needsDelay: a pacing delay follows every batch
needsDelay_always(eng) == TRUE

\* if (i + BATCH_SIZE < validRows.length) await delay
needsDelay(eng) == eng.i + BATCH_SIZE < Len(eng.validRows)

\* Promise.all resolves: the results are aggregated, then the pacing delay
\* starts or the submission returns
BatchSettled ==
  /\ pc = "batch"
  /\ allSettled
  /\ LET eng == aggregate(engine, batchResults)
         \* onBatchProgress(processedCount, validRows.length), once per result
         emitted == [b \in 1..Len(batchResults) |->
                      batchProgress(engine.processedCount + b, Len(eng.validRows))]
     IN /\ outcomeLog' = outcomeLog \o
                [b \in 1..Len(batchResults) |->
                   [idx |-> engine.i + b, kind |-> outcomeKind(batchResults[b]),
                    tags |-> {batchResults[b].errors[e].row : e \in DOMAIN batchResults[b].errors}]]
        /\ IF needsDelay(eng)
             THEN /\ engine' = eng
                  /\ emit(emitted)
                  /\ pc' = "delay"
                  /\ delays' = delays + 1
                  /\ UNCHANGED result
             ELSE /\ delays' = delays
                  /\ Complete(eng, emitted)
  /\ UNCHANGED <<file, scenario, abortSignal, processedSpreadsheet, serverBodies, recon,
                 updatedServiceBodies, existingWorldIds, batchResults, inflight, issued,
                 created, batches>>
  /\ remoteCalls' = remoteCalls \cup awaitedCalls(pc', inflight')
  /\ UNCHANGED <<call, returned>>

\* mutant of DelayElapsed: the codes created so far join the duplicate check of
\* the next batch
DelayElapsed_refreshes ==
  /\ pc = "delay"
  /\ LET eng == [engine EXCEPT !.i = nextBatchStart(@)]
         createdCodes == {toUpperCase(trim(engine.validRows[j].committee)) : j \in created}
     IN IF eng.i < Len(eng.validRows)
          THEN IF aborted
                 THEN /\ Throw(result, "AbortError")
                      /\ UNCHANGED <<engine, batchResults, inflight, issued, batches>>
                 ELSE /\ LaunchBatch(eng, existingWorldIds \cup createdCodes)
                      /\ UNCHANGED <<result, events>>
          ELSE /\ Complete(eng, <<>>)
               /\ UNCHANGED <<batchResults, inflight, issued, batches>>
  /\ UNCHANGED <<file, scenario, abortSignal, processedSpreadsheet, serverBodies, recon,
                 updatedServiceBodies, existingWorldIds, created, outcomeLog, delays>>
  /\ remoteCalls' = remoteCalls \cup awaitedCalls(pc', inflight')
  /\ UNCHANGED <<call, returned>>

\* the pacing delay elapses: next iteration of the batch loop
DelayElapsed ==
  /\ pc = "delay"
  /\ LET eng == [engine EXCEPT !.i = nextBatchStart(@)]
     IN IF eng.i < Len(eng.validRows)
          THEN IF aborted
                 THEN /\ Throw(result, "AbortError")
                      /\ UNCHANGED <<engine, batchResults, inflight, issued, batches>>
                 ELSE /\ LaunchBatch(eng, existingWorldIds)
                      /\ UNCHANGED <<result, events>>
          ELSE /\ Complete(eng, <<>>)
               /\ UNCHANGED <<batchResults, inflight, issued, batches>>
  /\ UNCHANGED <<file, scenario, abortSignal, processedSpreadsheet, serverBodies, recon,
                 updatedServiceBodies, existingWorldIds, created, outcomeLog, delays>>
  /\ remoteCalls' = remoteCalls \cup awaitedCalls(pc', inflight')
  /\ UNCHANGED <<call, returned>>

\* the caller aborts the AbortController while the import is running
Abort ==
  /\ pc # "done"
  /\ ~abortSignal
  /\ abortSignal' = TRUE
  /\ UNCHANGED <<file, scenario, pc, processedSpreadsheet, result, events, serverBodies,
                 recon, updatedServiceBodies, existingWorldIds, engine, batchResults,
                 inflight, issued, created, outcomeLog, delays, batches,
                 remoteCalls>>
  /\ UNCHANGED <<call, returned>>

Next ==
  \/ ReadFile
  \/ ProcessFile
  \/ FetchConfig
  \/ FindMissing
  \/ SbList
  \/ SbPrincipal
  \/ SbCurrentUser
  \/ SbCreate
  \/ OtherActorCreates
  \/ Refetch
  \/ GetMeetings
  \/ \E j \in 1..(MaxBulkRows + 1) : SettleCall(j)
  \/ BatchSettled
  \/ DelayElapsed
  \/ Abort

Spec == Init /\ [][Next]_vars

(***************************************************************************)
(* Properties                                                              *)
(***************************************************************************)
nValid == Len(engine.validRows)
completed == pc = "done" /\ progress.phase = "completed"
cancelled == pc = "done" /\ progress.phase = "error" /\ progress.message = "Import cancelled"
loggedAs(kind) == {k \in DOMAIN outcomeLog : outcomeLog[k].kind = kind}
batchOf(m) == (m - 1) \div BATCH_SIZE
Min(a, b) == IF a < b THEN a ELSE b

\* C1: at every moment at most BATCH_SIZE createMeeting calls have been issued
\* and have not yet settled, whatever the number of rows.
C1_InFlightBounded == Cardinality(inflight) <= BATCH_SIZE

\* a full batch is in flight while further rows are still waiting
C1_Witness ==
  /\ Cardinality(inflight) = BATCH_SIZE
  /\ nValid > engine.i + BATCH_SIZE

\* C2: batches are consecutive runs of valid rows in input order, and no
\* createMeeting call of a later batch is issued before every row of the
\* earlier batches has settled.
C2_BatchesInOrder ==
  /\ \A a \in 1..(Len(issued) - 1) : issued[a] < issued[a + 1]
  /\ \A j \in inflight : \A m \in 1..(batchOf(j) * BATCH_SIZE) :
       /\ m \notin inflight
       /\ \E k \in DOMAIN outcomeLog : outcomeLog[k].idx = m
  /\ pc = "batch" =>
       /\ engine.i % BATCH_SIZE = 0
       /\ Len(batchResults) = Min(BATCH_SIZE, nValid - engine.i)
       /\ inflight \subseteq (engine.i + 1)..(engine.i + Len(batchResults))

\* calls of the second batch are in flight
C2_Witness ==
  /\ pc = "batch"
  /\ engine.i = BATCH_SIZE
  /\ Cardinality(inflight) > 1

\* C3: when the abort signal is set at the check that precedes a batch, the
\* run ends with the cancellation and no createMeeting call is issued for
\* that batch or any later one.
C3_AbortStopsSubmission ==
  [][(abortSignal /\ pc \in {"getMeetings", "delay"}) =>
       (/\ pc' = "done"
        /\ progress'.phase = "error" /\ progress'.message = "Import cancelled"
        /\ issued' = issued
        /\ inflight' = {})]_vars

\* a run cancelled between two batches: calls were issued, rows remain
C3_Witness ==
  /\ cancelled
  /\ Len(issued) = BATCH_SIZE
  /\ nValid > BATCH_SIZE

\* C4: the result of a cancelled run carries the counts and the created
\* meetings of the rows that settled before the cancellation.
C4_PartialResultsPreserved ==
  cancelled =>
    /\ result.successfulImports = Cardinality(loggedAs("success"))
    /\ result.failedImports = Cardinality(loggedAs("failed"))
    /\ result.skippedImports = Cardinality(loggedAs("skipped"))
    /\ Len(result.createdMeetings) = Min(MAX_STORED_MEETINGS, Cardinality(loggedAs("success")))

\* C5: a cancelled run does not deliver its cancellation notice through the
\* errors list that carries the data errors.
C5_CancellationNotInErrors ==
  cancelled => \A k \in DOMAIN result.errors : result.errors[k] # CancelNotice

\* C6: createMeeting is invoked at most once per row, and in a completed run
\* every row that passes the submission filter has exactly one outcome.
C6_AtMostOnce ==
  /\ Cardinality({issued[a] : a \in DOMAIN issued}) = Len(issued)
  /\ completed =>
       \A m \in 1..nValid : Cardinality({k \in DOMAIN outcomeLog : outcomeLog[k].idx = m}) = 1

\* a completed run of more than one batch in which calls were issued
C6_Witness ==
  /\ completed
  /\ Len(issued) > BATCH_SIZE

\* the rows of the submission that are duplicates of existing meetings
duplicateRows ==
  {m \in 1..nValid :
     /\ Truthy(trim(engine.validRows[m].committee))
     /\ toUpperCase(trim(engine.validRows[m].committee)) \in existingWorldIds}

\* C7: after a completed submission the counters are exact and the stored
\* meetings are capped: successfulImports is the number of createMeeting calls
\* that returned a meeting, failedImports and skippedImports the numbers of
\* failed and skipped rows, createdMeetings holds min(10, successfulImports).
C7_CountsExactSamplesCapped ==
  completed =>
    /\ result.successfulImports = Cardinality(created)
    /\ result.skippedImports = Cardinality(duplicateRows)
    /\ result.failedImports = Cardinality(((1..nValid) \ duplicateRows) \ created)
    /\ Len(result.createdMeetings) = Min(MAX_STORED_MEETINGS, result.successfulImports)

\* a completed run with more successes than stored meetings
C7_Witness ==
  /\ completed
  /\ result.successfulImports > MAX_STORED_MEETINGS
  /\ Len(result.createdMeetings) = MAX_STORED_MEETINGS

\* C8: the errors list of the returned result never holds more than
\* MAX_STORED_ERRORS strings.
C8_ErrorsCapped == pc = "done" => Len(result.errors) <= MAX_STORED_ERRORS

\* C9: the success flag of the returned result is true exactly when at least
\* one meeting was created on the server during the run.
C9_SuccessIffCreated == pc = "done" => (result.success <=> created # {})

\* C10: in a completed run, successes + failures + skips equals the
\* validator's valid-row count reported as totalProcessed.
C10_OutcomesSumToTotal ==
  completed =>
    result.successfulImports + result.failedImports + result.skippedImports
      = result.totalProcessed

\* C11: a completed submission over n submitted rows has run ceil(n/5) batches
\* and max(0, ceil(n/5) - 1) pacing delays: one delay between two consecutive
\* batches, none after the last one.
C11_BatchesAndDelays ==
  /\ pc = "batch" => delays = batches - 1
  /\ pc = "delay" => (delays = batches /\ batches * BATCH_SIZE < nValid)
  /\ completed =>
       /\ batches = (nValid + BATCH_SIZE - 1) \div BATCH_SIZE
       /\ delays = (IF batches = 0 THEN 0 ELSE batches - 1)

\* the 7 submitted rows of the example file: 2 batches, 1 delay
C11_Witness ==
  /\ completed
  /\ nValid = 7
  /\ batches = 2
  /\ delays = 1

\* the worldIds of the meetings the pre-submission fetch returned
returnedWorldIds == IF scenario = "getMeetings" THEN <<>> ELSE InitialMeetingWorldIds

\* the row carries an external code that equals, case-insensitively, the
\* worldId of a returned meeting
matchesExisting(row) ==
  /\ Truthy(trim(row.committee))
  /\ \E k \in DOMAIN returnedWorldIds :
       toUpperCase(returnedWorldIds[k]) = toUpperCase(trim(row.committee))

\* C12: a submitted row whose trimmed external code equals, case-insensitively,
\* the worldId of a meeting returned by the pre-submission fetch is counted as
\* skipped, and createMeeting is never invoked for it.
C12_DuplicateSkipped ==
  LET duplicates == {r \in {engine.validRows[m] : m \in 1..nValid} : matchesExisting(r)}
  IN duplicates # {} =>
       /\ \A a \in DOMAIN issued : engine.validRows[issued[a]] \notin duplicates
       /\ \A k \in DOMAIN outcomeLog :
            engine.validRows[outcomeLog[k].idx] \in duplicates => outcomeLog[k].kind = "skipped"
       /\ completed =>
            result.skippedImports >=
              Cardinality({m \in 1..nValid : engine.validRows[m] \in duplicates})

\* a completed run with a duplicate row next to a row that was submitted
C12_Witness ==
  /\ completed
  /\ \E m \in 1..nValid : matchesExisting(engine.validRows[m])
  /\ result.skippedImports > 0
  /\ Len(issued) > 0

\* the note a duplicate row's result carries
SkipNote == "Meeting with worldId already exists - skipped"

\* C13: a row skipped as a duplicate is not reported as a failure or an error:
\* it increments only skippedImports, never failedImports, and adds no entry
\* to the errors list of the result.
C13_SkipIsNotAnError ==
  completed =>
    /\ result.skippedImports = Cardinality(loggedAs("skipped"))
    /\ result.failedImports = Cardinality(loggedAs("failed"))
    /\ \A k \in DOMAIN result.errors : result.errors[k].msg # SkipNote

\* the row's external code is the worldId of a meeting the server holds
matchesExistingOnServer(row) ==
  /\ Truthy(trim(row.committee))
  /\ toUpperCase(trim(row.committee)) \in worldIdSet(InitialMeetingWorldIds)

\* C14: when the fetch of the existing meetings fails, the duplicate check
\* uses the empty set and the run goes on to submission: no row is skipped as
\* a duplicate, the run is not aborted by that failure and the result gets no
\* error for it.
C14_FetchFailureTolerated ==
  scenario = "getMeetings" =>
    /\ existingWorldIds = {}
    /\ loggedAs("skipped") = {}
    /\ pc = "done" => (completed \/ cancelled \/ Len(processedSpreadsheet.errors) > 0)
    /\ completed =>
         /\ result.skippedImports = 0
         /\ Len(result.errors) = Len(recon.errors) + Len(engine.errors)

\* the fetch failed and a row whose code the server already holds was created
C14_Witness ==
  /\ scenario = "getMeetings"
  /\ completed
  /\ \E m \in created : matchesExistingOnServer(engine.validRows[m])

\* the upper-cased worldIds of the service bodies the server holds
serverWorldIds ==
  {toUpperCase(serverBodies[k].worldId) : k \in 1..Len(serverBodies)}

\* C15: no createMeeting call is issued before every missing-service-body
\* creation attempt has settled and the service-body list has been re-fetched;
\* the submission maps with the re-fetched list, so a row whose area/region
\* was created during reconciliation carries the newly assigned id and does
\* not fail with 'Service body not found'.
C15_ReconciledBeforeSubmission ==
  (Len(issued) > 0 \/ pc \in {"batch", "delay"}) =>
    /\ recon.i = Len(recon.missing)
    /\ recon.totalProcessed = Len(recon.missing)
    /\ "createMeeting" \in remoteCalls => "getMeetings" \in remoteCalls
    /\ updatedServiceBodies = serverBodies
    /\ \A b \in DOMAIN batchResults :
         batchResults[b].pending =>
           batchResults[b].meeting.serviceBodyId =
             serviceBodyIdFor(serverBodies, toUpperCase(engine.validRows[engine.i + b].arearegion))
    /\ LET notFound == {engine.errors[k].arg : k \in
                          {e \in DOMAIN engine.errors :
                             engine.errors[e].msg = "Service body not found for area/region"}}
       IN \A area \in notFound : toUpperCase(area) \notin serverWorldIds

\* a meeting was created in a service body that reconciliation had created
C15_Witness ==
  /\ completed
  /\ result.servicesBodiesCreated > 0
  /\ \E m \in created :
       serviceBodyIdFor(serverBodies, toUpperCase(engine.validRows[m].arearegion))
         > Len(InitialServiceBodies)

\* the current identity could not be resolved while the first missing entry
\* was being created
identityUnresolved ==
  /\ scenario \in {"token", "getUser"}
  /\ Len(recon.missing) > 0
  /\ ~(recon.i = 1 /\ pc \in {"sbList", "sbCurrentUser"})

\* C16: when the current identity cannot be resolved during service-body
\* creation, the reconciliation step aborts as a fatal condition: no further
\* missing entry is processed, the run ends in the error phase without
\* submitting a meeting, and no per-entry error is recorded for it.
C16_IdentityFailureIsFatal ==
  identityUnresolved =>
    /\ pc = "done"
    /\ progress.phase = "error"
    /\ recon.totalProcessed = 1
    /\ recon.errors = <<>>
    /\ issued = <<>>

\* the validator reported a structural error: missing columns or no valid row
validatorError == Len(processedSpreadsheet.errors) > 0

rejectedCalls == {issued[a] : a \in DOMAIN issued} \ (created \cup inflight)

\* the 'Failed to create meeting' errors of the submission
createErrors ==
  {k \in DOMAIN engine.errors : engine.errors[k].msg = "Failed to create meeting"}

submittedPositions ==
  {k \in 1..Len(file.data) :
     /\ file.data[k].length # 0
     /\ ~isDeleted(normalizeRow(file.data[k]))
     /\ passesSubmissionFilter(normalizeRow(file.data[k]))}

\* the spreadsheet row number (header = row 1) of the m-th submitted row, the
\* number the validator uses in its warnings
sourceRow(m) ==
  1 + CHOOSE k \in submittedPositions :
        Cardinality({q \in submittedPositions : q <= k}) = m

\* C19: every error or skip message of the submission carries the 1-based
\* spreadsheet row number of its row (header = row 1), also when earlier rows
\* of the file were empty, delete-flagged or excluded.
C19_MessagesCarrySourceRow ==
  completed =>
    \A k \in DOMAIN outcomeLog :
      \A tag \in outcomeLog[k].tags : tag = sourceRow(outcomeLog[k].idx)

\* position of a phase in the order of the run
phaseRank(phase) ==
  CASE phase = "processing" -> 1
    [] phase = "validating" -> 2
    [] phase = "mapping" -> 3
    [] phase = "service-bodies" -> 4
    [] phase = "creating" -> 5
    [] phase \in {"completed", "error"} -> 6

\* the percentage of an event is base + (current / total) * span; it is
\* compared as the fraction percentNum / total
percentNum(event) == event.base * event.total + event.current * event.span

percentAtMost(a, b) == percentNum(a) * b.total <= percentNum(b) * a.total

\* the percentage of the event lies between low and high
percentWithin(event, low, high) ==
  /\ low * event.total <= percentNum(event)
  /\ percentNum(event) <= high * event.total

terminal(event) == event.phase \in {"completed", "error"}

\* C20: the progress events follow the phase order processing (0%),
\* validating (15%), mapping (30%), service-bodies (45-55%), creating (55%,
\* then 60-90%), completed (100%): no event of an earlier phase follows one of
\* a later phase, percentages do not decrease before the terminal event, and
\* exactly one terminal event is emitted, as the last event of the run.
C20_ProgressOrdered ==
  /\ \A k \in 1..(Len(events) - 1) :
       /\ ~terminal(events[k])
       /\ phaseRank(events[k].phase) <= phaseRank(events[k + 1].phase)
       /\ events[k + 1].phase # "error" => percentAtMost(events[k], events[k + 1])
  /\ pc = "done" <=> terminal(progress)
  /\ \A k \in DOMAIN events :
       CASE events[k].phase = "processing" -> percentWithin(events[k], 0, 0)
         [] events[k].phase = "validating" -> percentWithin(events[k], 15, 15)
         [] events[k].phase = "mapping" -> percentWithin(events[k], 30, 30)
         [] events[k].phase = "service-bodies" -> percentWithin(events[k], 45, 55)
         [] events[k].phase = "creating" ->
              percentWithin(events[k], 55, 55) \/ percentWithin(events[k], 60, 90)
         [] events[k].phase = "completed" -> percentWithin(events[k], 100, 100)
         [] OTHER -> TRUE

\* a completed run that created service bodies and ran more than one batch
C20_Witness ==
  /\ completed
  /\ batches > 1
  /\ \E k \in DOMAIN events :
       events[k].phase = "service-bodies" /\ events[k].current = events[k].total
  /\ \E k \in DOMAIN events :
       events[k].phase = "creating" /\ events[k].current = events[k].total /\ events[k].span > 0

(***************************************************************************)
(* Rows that must not be submitted                                         *)
(***************************************************************************)
deleteFlagged(row) == row.delete \in {<<"D">>, <<"d">>}

lacksRequiredField(row) ==
  \E c \in {"committeename", "arearegion", "day", "time"} : trim(row[c]) = <<>>

\* the data rows of the file that carry the delete flag, by position
deletedPositions ==
  {k \in 1..Len(file.data) : file.data[k].length # 0 /\ deleteFlagged(file.data[k])}

\* C21: a row whose delete field is 'D' or 'd', or that lacks one of the four
\* required fields, never reaches createMeeting; a delete-flagged row yields
\* no record and no warning in the validator, no meeting, error or warning in
\* the mapper, and no entry among the rows the submission engine works on.
C21_DeletedAndIncompleteNeverSubmitted ==
  /\ \A a \in DOMAIN issued :
       /\ ~deleteFlagged(engine.validRows[issued[a]])
       /\ ~lacksRequiredField(engine.validRows[issued[a]])
  /\ \A m \in DOMAIN engine.validRows : ~deleteFlagged(engine.validRows[m])
  /\ \A k \in DOMAIN outcomeLog : outcomeLog[k].idx \in DOMAIN engine.validRows
  /\ pc = "done" =>
       /\ \A j \in DOMAIN processedSpreadsheet.rows : ~deleteFlagged(processedSpreadsheet.rows[j])
       /\ \A k \in deletedPositions :
            /\ \A w \in DOMAIN processedSpreadsheet.warnings :
                 processedSpreadsheet.warnings[w].row # k + 1
            /\ mapNAWSRowToMeeting(InitialServiceBodies, ServerFormats,
                                   normalizeRow(file.data[k]), k + 1)
                 = [meeting |-> NoMeeting, errors |-> <<>>, warnings |-> <<>>]

\* a completed run over a file with a delete-flagged row, a row lacking a
\* required field, and rows that were submitted
C21_Witness ==
  /\ completed
  /\ deletedPositions # {}
  /\ \E k \in 1..Len(file.data) : file.data[k].length # 0 /\ lacksRequiredField(file.data[k])
  /\ Len(issued) >= 1

(***************************************************************************)
(* Direct calls of the library functions                                   *)
(*                                                                         *)
(* The functions of NAWSMapper and SpreadsheetProcessor are public and are *)
(* called by the tests without an import run.  In the specifications below *)
(* no import is running; a call is drawn from a bounded set of arguments   *)
(* and one action applies the function to it.                              *)
(***************************************************************************)
importVars == <<file, scenario, abortSignal, pc, processedSpreadsheet, result, events,
                serverBodies, recon, updatedServiceBodies, existingWorldIds, engine,
                batchResults, inflight, issued, created, outcomeLog, delays, batches,
                remoteCalls>>

NoImportRunning ==
  /\ file = [headers |-> AllHeaders, data |-> <<>>]
  /\ scenario = "none"
  /\ abortSignal = FALSE
  /\ pc = "idle"
  /\ processedSpreadsheet = NoSpreadsheet
  /\ result = [success |-> FALSE, totalProcessed |-> 0, successfulImports |-> 0,
               failedImports |-> 0, skippedImports |-> 0, servicesBodiesCreated |-> 0,
               errors |-> <<>>, warnings |-> <<>>, createdMeetings |-> <<>>,
               duration |-> 0]
  /\ events = <<>>
  /\ serverBodies = InitialServiceBodies
  /\ recon = NoRecon
  /\ updatedServiceBodies = <<>>
  /\ existingWorldIds = {}
  /\ engine = NoEngine
  /\ batchResults = <<>>
  /\ inflight = {}
  /\ issued = <<>>
  /\ created = {}
  /\ outcomeLog = <<>>
  /\ delays = 0
  /\ batches = 0
  /\ remoteCalls = {}

Returned(value) == [done |-> TRUE, value |-> value]

(***************************************************************************)
(* NAWSMapper.mapNAWSRowToMeeting called on one row                        *)
(***************************************************************************)
\* a complete normalized row; the calls vary some of its fields
MapperRow == normalizeRow(GoodRow)

\* rows that differ in the fields the venue type is computed from
VenueRows ==
  {[MapperRow EXCEPT !.address = a, !.city = c, !.virtualmeetinglink = l,
                     !.phonemeetingnumber = p] :
     a \in { <<>>, <<" ">>, <<"1"," ","M","a","i","n">> },
     c \in { <<>>, <<" ">>, <<"T","o","w","n">> },
     l \in { <<>>, <<" ">>, <<"z",".","u","s">> },
     p \in { <<>>, <<"5","5","5">> }}

FormatCodes ==
  { <<>>, <<" ">>, <<"O">>, <<"o">>, <<"C">>, <<"V","M">>, <<"v","m">>, <<"T","C">>,
    <<"H","Y">>, <<"X","X">> }

\* rows that differ in the format columns and the wheelchair column
FormatRows ==
  {[MapperRow EXCEPT !.closed = a, !.format1 = b, !.format5 = c, !.wheelchr = w] :
     a \in FormatCodes, b \in FormatCodes, c \in { <<>>, <<"O">>, <<"H","Y">> },
     w \in { <<>>, <<"T","r","u","e">>, <<"1">>, <<"y","e","s">> }}

\* format lists of a server: the usual one, one with the restricted codes and
\* two formats sharing a world id and no wheelchair format, and none
FormatLists ==
  { ServerFormats,
    << [id |-> 1, worldId |-> <<"o">>], [id |-> 5, worldId |-> <<"O">>],
       [id |-> 6, worldId |-> <<"T","C">>], [id |-> 7, worldId |-> <<"H","Y">>],
       [id |-> 4, worldId |-> <<"V","M">>], [id |-> 8, worldId |-> <<>>] >>,
    <<>> }

\* rows that differ in the delete flag, the required fields and the area code
LookupRows ==
  {[MapperRow EXCEPT !.delete = d, !.committeename = n, !.arearegion = a, !.day = y, !.time = t] :
     d \in { <<>>, <<"d">>, <<"D">>, <<"x">> },
     n \in { <<"M">>, <<" ">> },
     a \in { <<"a","r","1">>, <<"A","R","1">>, <<"A","r","1"," ">>, <<"z","z","9">>, <<>>, <<" ">> },
     y \in { <<"M","o","n","d","a","y">>, <<>> },
     t \in { <<"1","9","3","0">>, <<>> }}

\* service-body lists of a server: none, the usual one, one with the code in
\* lower case, two bodies sharing a code, and one body without a code
ServiceBodyLists ==
  { <<>>, InitialServiceBodies,
    << [id |-> 2, worldId |-> <<"a","r","1">>, adminUserId |-> 1] >>,
    << [id |-> 1, worldId |-> <<"A","R","1">>, adminUserId |-> 1],
       [id |-> 2, worldId |-> <<"a","r","1">>, adminUserId |-> 1] >>,
    << [id |-> 3, worldId |-> <<>>, adminUserId |-> 1] >> }

MapperCalls ==
  [fn : {"mapNAWSRowToMeeting"}, serviceBodies : {InitialServiceBodies},
   formats : {ServerFormats}, nawsRow : VenueRows, rowIndex : {2, 7}]
  \cup
  [fn : {"mapNAWSRowToMeeting"}, serviceBodies : {InitialServiceBodies},
   formats : FormatLists, nawsRow : FormatRows, rowIndex : {2, 7}]
  \cup
  [fn : {"mapNAWSRowToMeeting"}, serviceBodies : ServiceBodyLists,
   formats : {ServerFormats}, nawsRow : LookupRows, rowIndex : {2, 7}]

MapperInit ==
  /\ NoImportRunning
  /\ call \in MapperCalls
  /\ returned = NotReturned

\* new NAWSMapper(options).mapNAWSRowToMeeting(nawsRow, rowIndex)
MapRow ==
  /\ call.fn = "mapNAWSRowToMeeting"
  /\ ~returned.done
  /\ returned' = Returned(mapNAWSRowToMeeting(call.serviceBodies, call.formats,
                                              call.nawsRow, call.rowIndex))
  /\ UNCHANGED <<importVars, call>>

MapperNext == MapRow

MapperSpec == MapperInit /\ [][MapperNext]_vars

\* the call returned a meeting
mapped == returned.done /\ returned.value.meeting # NoMeeting

blank(s) == trim(s) = <<>>

\* C22: the venue type is computed from the street address and the virtual
\* info only: non-blank address with a non-blank link or phone number gives
\* Hybrid (3), blank address with a non-blank link or phone number gives
\* Virtual (2) whatever the city, everything else gives In-Person (1).
C22_VenueFromAddressOnly ==
  mapped =>
    LET row == call.nawsRow
        virtual == ~blank(row.virtualmeetinglink) \/ ~blank(row.phonemeetingnumber)
    IN returned.value.meeting.venueType =
         IF ~blank(row.address) /\ virtual THEN 3
         ELSE IF virtual THEN 2
         ELSE 1

RestrictedCodes == { <<"T","C">>, <<"V","M">>, <<"H","Y">> }

\* C23: the restricted codes TC, VM and HY in the closed/format1..format5
\* columns never add a format id to the meeting's formatIds, even when the
\* server lists formats with those world ids.
C23_RestrictedFormatsIgnored ==
  mapped =>
    \A k \in DOMAIN returned.value.meeting.formatIds :
      \A f \in DOMAIN call.formats :
        call.formats[f].id = returned.value.meeting.formatIds[k]
          => toUpperCase(call.formats[f].worldId) \notin RestrictedCodes

\* two codes are equal case-insensitively
sameCode(a, b) == toLowerCase(a) = toLowerCase(b)

\* the service bodies of the call whose worldId is the row's area/region code
matchingBodies ==
  {k \in DOMAIN call.serviceBodies :
     sameCode(call.serviceBodies[k].worldId, call.nawsRow.arearegion)}

\* C27: for a non-deleted row with the four required fields,
\* mapNAWSRowToMeeting returns a meeting carrying the id of a matching service
\* body and no error if and only if some service body of the mapper's list has
\* a worldId equal to the row's area/region code case-insensitively; otherwise
\* it returns no meeting and exactly one error, 'Service body not found'.
C27_ServiceBodyLookup ==
  (returned.done /\ ~deleteFlagged(call.nawsRow) /\ ~lacksRequiredField(call.nawsRow)) =>
    IF matchingBodies # {}
      THEN /\ returned.value.meeting # NoMeeting
           /\ \E k \in matchingBodies :
                returned.value.meeting.serviceBodyId = call.serviceBodies[k].id
           /\ returned.value.errors = <<>>
      ELSE /\ returned.value.meeting = NoMeeting
           /\ Len(returned.value.errors) = 1
           /\ returned.value.errors[1].msg = "Service body not found for area/region"
           /\ returned.value.errors[1].row = call.rowIndex

\* a row with code 'AR1' mapped against a list whose only body has code 'ar1'
C27_Witness ==
  /\ returned.done
  /\ call.nawsRow.arearegion = <<"A","R","1">>
  /\ call.nawsRow.delete = <<"x">>
  /\ ~lacksRequiredField(call.nawsRow)
  /\ call.serviceBodies = << [id |-> 2, worldId |-> <<"a","r","1">>, adminUserId |-> 1] >>
  /\ returned.value.meeting.serviceBodyId = 2

\* the ids of the formats of the call whose world id is the code
idsOfCode(code) ==
  {call.formats[f].id : f \in {g \in DOMAIN call.formats : sameCode(call.formats[g].worldId, code)}}

\* the format columns of the row that hold a non-blank code
codedColumns ==
  {formatColumns[k] : k \in {j \in DOMAIN formatColumns : ~blank(call.nawsRow[formatColumns[j]])}}

wheelchairAsked ==
  toLowerCase(call.nawsRow.wheelchr) = <<"t","r","u","e">> \/ call.nawsRow.wheelchr = <<"1">>

TimeChars == {"0", "2", "5", "9", ":", "x"}

TimeTexts == UNION {[1..n -> TimeChars] : n \in 0..MaxTimeLen}

TimeInit ==
  /\ NoImportRunning
  /\ call \in [fn : {"isValidTime", "formatTimeForBMLT"}, time : TimeTexts]
  /\ returned = NotReturned

\* SpreadsheetProcessor.isValidTime(time), private, called by the validator
ValidateTime ==
  /\ call.fn = "isValidTime"
  /\ ~returned.done
  /\ returned' = Returned(isValidTime(call.time))
  /\ UNCHANGED <<importVars, call>>

\* SpreadsheetProcessor.formatTimeForBMLT(time)
FormatTime ==
  /\ call.fn = "formatTimeForBMLT"
  /\ ~returned.done
  /\ returned' = Returned(formatTimeForBMLT(call.time))
  /\ UNCHANGED <<importVars, call>>

TimeNext == ValidateTime \/ FormatTime

TimeSpec == TimeInit /\ [][TimeNext]_vars

\* the text without the characters that are neither a digit nor a colon
digitsAndColons(text) == SelectSeq(text, LAMBDA c : c \in {DigitChars[k] : k \in 1..10} \cup {":"})

allDigits(s) == s # <<>> /\ \A k \in DOMAIN s : s[k] \in {DigitChars[j] : j \in 1..10}

\* the hour and minute a text denotes: a bare numeral of 3 or 4 digits read
\* as HHMM, or an hour of 1 or 2 digits, a colon, and a minute whose number of
\* digits is in minuteDigits
denotedTime(text, minuteDigits) ==
  LET s == digitsAndColons(text)
      n == Len(s)
      none == [ok |-> FALSE, hour |-> 0, minute |-> 0]
      colons == {k \in DOMAIN s : s[k] = ":"}
  IN IF allDigits(s) /\ n \in {3, 4}
       THEN [ok |-> TRUE, hour |-> DigitsValue(SubSeq(s, 1, n - 2)),
             minute |-> DigitsValue(SubSeq(s, n - 1, n))]
     ELSE IF Cardinality(colons) = 1
       THEN LET p == CHOOSE k \in colons : TRUE
                h == SubSeq(s, 1, p - 1)
                m == SubSeq(s, p + 1, n)
            IN IF allDigits(h) /\ allDigits(m) /\ Len(h) \in {1, 2} /\ Len(m) \in minuteDigits
                 THEN [ok |-> TRUE, hour |-> DigitsValue(h), minute |-> DigitsValue(m)]
                 ELSE none
     ELSE none

onTheClock(t) == t.ok /\ t.hour <= 23 /\ t.minute <= 59

twoDigits(n) == <<DigitChars[(n \div 10) + 1], DigitChars[(n % 10) + 1]>>

\* C24: formatTimeForBMLT returns the zero-padded HH:MM its input denotes, for
\* a bare 3-or-4 digit HHMM numeral and for a colon-separated H:MM or HH:MM
\* numeral, after stripping every character that is neither digit nor colon.
C24_FormatsBothShapes ==
  (returned.done /\ call.fn = "formatTimeForBMLT") =>
    LET t == denotedTime(call.time, {2})
    IN onTheClock(t) => returned.value = twoDigits(t.hour) \o <<":">> \o twoDigits(t.minute)

\* C25: a time that fails both accepted shapes, or whose hour is outside 0..23
\* or minute outside 0..59, is reported invalid by the validator and encoded
\* as the default '12:00' by formatTimeForBMLT, so every encoded time is an
\* HH:MM with hour in 0..23 and minute in 0..59.
C25_InvalidTimeRejectedAndDefaulted ==
  LET t == denotedTime(call.time, {1, 2})
  IN /\ (returned.done /\ call.fn = "isValidTime" /\ ~onTheClock(t)) => returned.value = FALSE
     /\ (returned.done /\ call.fn = "formatTimeForBMLT") =>
          /\ ~onTheClock(t) => returned.value = <<"1","2",":","0","0">>
          /\ onTheClock(denotedTime(returned.value, {2}))
          /\ Len(returned.value) = 5

(***************************************************************************)
(* SpreadsheetProcessor.mapDayToBMLT called on a text                      *)
(***************************************************************************)
\* the spellings of a lower-case word in every mix of letter cases
caseVariants(word) ==
  {[k \in 1..Len(word) |-> IF upper[k] THEN toUpperChar(word[k]) ELSE word[k]] :
     upper \in [1..Len(word) -> BOOLEAN]}

\* the weekday names in every letter case, short texts spelled freely, near
\* misses of a weekday name, and the names every object literal inherits
DayTexts ==
  UNION {caseVariants(validDays[k]) : k \in DOMAIN validDays}
  \cup UNION {[1..n -> {"s", "u", "n", "N", " "}] : n \in 0..MaxDayLen}
  \cup { <<"m","o","n">>, <<"s","u","n","d","a","y","s">>, <<" ","s","u","n","d","a","y">>,
         <<"F","u","n">>, <<"t","o","S","t","r","i","n","g">> }
  \cup UNION {caseVariants(w) : w \in ObjectPrototypeKeys}

DayInit ==
  /\ NoImportRunning
  /\ call \in [fn : {"mapDayToBMLT"}, day : DayTexts]
  /\ returned = NotReturned

\* SpreadsheetProcessor.mapDayToBMLT(day)
MapDay ==
  /\ call.fn = "mapDayToBMLT"
  /\ ~returned.done
  /\ returned' = Returned(mapDayToBMLT(call.day))
  /\ UNCHANGED <<importVars, call>>

DayNext == MapDay

DaySpec == DayInit /\ [][DayNext]_vars

\* C26: mapDayToBMLT is total and case-insensitive: each of the seven English
\* weekday names, in any letter case, maps to its index 0 (Sunday) .. 6
\* (Saturday), and every other string, the empty one included, maps to 0.
C26_DayMappingTotal ==
  returned.done =>
    IF \E k \in DOMAIN validDays : sameCode(call.day, validDays[k])
      THEN returned.value = (CHOOSE k \in DOMAIN validDays : sameCode(call.day, validDays[k])) - 1
      ELSE returned.value = 0

(***************************************************************************)
(* SpreadsheetProcessor.validateAndProcess called on the cells of a sheet  *)
(***************************************************************************)
\* a row that ends after its seventh cell (time)
ShortRow == [GoodRow EXCEPT !.length = 7]
\* a row whose cells are all present and all the empty string
BlankCellsRow == [c \in DOMAIN GoodRow |-> IF c = "length" THEN RowCells ELSE <<>>]

\* header rows lacking any of the required columns and of two optional ones
ValidatorHeaders ==
  {AllHeaders \ lacking :
     lacking \in SUBSET {"committeename", "arearegion", "day", "time", "room", "timezone"}}

ValidatorInit ==
  /\ NoImportRunning
  /\ call \in [fn : {"validateAndProcess"},
               file : [headers : ValidatorHeaders,
                       data : UNION {[1..n -> RowKinds \cup {ShortRow, BlankCellsRow}] : n \in 0..MaxRows}]]
  /\ returned = NotReturned

\* SpreadsheetProcessor.validateAndProcess(rawData)
Validate ==
  /\ call.fn = "validateAndProcess"
  /\ ~returned.done
  /\ returned' = Returned(validateAndProcess(call.file))
  /\ UNCHANGED <<importVars, call>>

ValidatorNext == Validate

ValidatorSpec == ValidatorInit /\ [][ValidatorNext]_vars

RequiredColumnNames == {"committeename", "arearegion", "day", "time"}

\* C29: if a required column (committeename, arearegion, day, time) is absent
\* from the header row, validation aborts with exactly one error that names
\* all missing columns, and with no partial output: no record, validRows = 0,
\* no warning.
C29_MissingRequiredColumnAborts ==
  (returned.done /\ ~(RequiredColumnNames \subseteq call.file.headers)) =>
    /\ Len(returned.value.errors) = 1
    /\ returned.value.errors[1].msg = "Missing required columns"
    /\ \A c \in RequiredColumnNames \ call.file.headers :
         \E k \in DOMAIN returned.value.errors[1].arg : returned.value.errors[1].arg[k] = c
    /\ returned.value.rows = <<>>
    /\ returned.value.validRows = 0
    /\ returned.value.warnings = <<>>

\* a sheet without the day and time columns whose rows are well-formed
C29_Witness ==
  /\ returned.done
  /\ "day" \notin call.file.headers
  /\ "time" \notin call.file.headers
  /\ "committeename" \in call.file.headers
  /\ call.file.data = <<GoodRow, BadTimeRow>>
  /\ Len(returned.value.errors) = 1

\* the data rows that hold cells and carry no delete flag, in order
keptRows == SelectSeq(call.file.data, LAMBDA r : r.length # 0 /\ ~deleteFlagged(normalizeRow(r)))

\* C30: for every recognized column missing from a row or from the whole
\* sheet, the rows are still processed and the field of each record is the
\* empty string: a sheet with the four required columns that lacks a
\* recognized optional column (room, timezone) yields records with that field ''.
C30_MissingOptionalColumnIsEmpty ==
  (returned.done /\ RequiredColumnNames \subseteq call.file.headers) =>
    /\ \A e \in DOMAIN returned.value.errors :
         returned.value.errors[e].msg # "Missing required columns"
    /\ Len(returned.value.rows) = Len(keptRows)
    /\ \A j \in DOMAIN returned.value.rows :
         \A c \in ModelledColumns :
           (c \notin call.file.headers \/ columnIndex(c) >= keptRows[j].length)
             => returned.value.rows[j][c] = <<>>

\* a data row with no cell, or whose cells are all the empty string
fullyEmpty(row) ==
  \/ row.length = 0
  \/ \A c \in ModelledColumns : columnIndex(c) < row.length => row[c] = <<>>

\* C31: a fully empty data row, with no cells at all or with empty cells
\* only, is skipped silently by the validator: no record, no warning, no
\* error, and it does not count towards validRows.
C31_EmptyRowSkippedSilently ==
  (returned.done /\ call.file.headers = AllHeaders) =>
    /\ Len(returned.value.rows) =
         Len(SelectSeq(call.file.data,
                       LAMBDA r : ~fullyEmpty(r) /\ ~deleteFlagged(normalizeRow(r))))
    /\ \A k \in DOMAIN call.file.data :
         fullyEmpty(call.file.data[k]) =>
           \A w \in DOMAIN returned.value.warnings : returned.value.warnings[w].row # k + 1
    /\ returned.value.validRows <= Len(SelectSeq(call.file.data, LAMBDA r : ~fullyEmpty(r)))

(***************************************************************************)
(* MeetingImportService.validateFile                                       *)
(***************************************************************************)
\* the preview of a file; throws: processFile fails to read or parse it
validateFile(f, throws) ==
  IF throws
    THEN [valid |-> FALSE, errors |-> << Err("Error processing spreadsheet") >>, warnings |-> <<>>,
          preview |-> [totalRows |-> 0, validRows |-> 0, sampleRows |-> <<>>]]
    ELSE LET processed == validateAndProcess(f)
         IN [valid |-> Len(processed.errors) = 0,
             errors |-> processed.errors,
             warnings |-> processed.warnings,
             preview |-> [totalRows |-> processed.totalRows, validRows |-> processed.validRows,
                          sampleRows |-> SubSeq(processed.rows, 1, Min(5, Len(processed.rows)))]]

\* no data row of the file qualifies as valid
noRowQualifies ==
  \A row \in {file.data[k] : k \in DOMAIN file.data} :
    \/ row.length = 0
    \/ deleteFlagged(normalizeRow(row))
    \/ ~hasRequiredData(normalizeRow(row))

NoValidData == "No valid meeting data found in spreadsheet"

\* C32: if no data row qualifies as valid, the validator appends a top-level
\* error (not a warning); validateFile then returns valid = false, and
\* importFromFile aborts with that error before any remote read or write.
C32_NoValidRowAborts ==
  (file.headers = AllHeaders /\ scenario # "file" /\ noRowQualifies) =>
    /\ pc # "readFile" =>
         /\ \E e \in DOMAIN processedSpreadsheet.errors :
              processedSpreadsheet.errors[e].msg = NoValidData
         /\ \A w \in DOMAIN processedSpreadsheet.warnings :
              processedSpreadsheet.warnings[w].msg # NoValidData
    /\ pc = "processFile" => ~validateFile(file, FALSE).valid
    /\ remoteCalls = {}
    /\ issued = <<>>
    /\ created = {}
    /\ serverBodies = InitialServiceBodies
    /\ pc \in {"readFile", "processFile", "done"}
    /\ (pc = "done" /\ ~abortSignal) =>
         /\ ~result.success
         /\ \E e \in DOMAIN result.errors : result.errors[e].msg = NoValidData

\* a run over a file whose rows are a row without a name and a deleted row
C32_Witness ==
  /\ pc = "done"
  /\ ~abortSignal
  /\ file.headers = AllHeaders
  /\ file.data = <<NoNameRow, DeletedRow>>
  /\ \E e \in DOMAIN result.errors : result.errors[e].msg = NoValidData

(***************************************************************************)
(* ServiceBodyCreator.extractUniqueAreas called on a list of rows, then on *)
(* the same rows in another order                                          *)
(***************************************************************************)
AreaRow(delete, arearegion, parentname) ==
  [delete |-> delete, arearegion |-> arearegion, parentname |-> parentname]

\* rows of two areas in several spellings, with agreeing and differing parent
\* names, delete-flagged rows, and rows without code or without name
AreaRows ==
  { AreaRow(<<>>, <<"a","r","1">>, <<"A">>),
    AreaRow(<<>>, <<"A","R","1"," ">>, <<" ","A"," ">>),
    AreaRow(<<>>, <<"A","r","1">>, <<"B">>),
    AreaRow(<<>>, <<"r","g","2">>, <<"B">>),
    AreaRow(<<"d">>, <<"a","r","1">>, <<"C">>),
    AreaRow(<<"D">>, <<"r","g","3">>, <<"C">>),
    AreaRow(<<>>, <<" ">>, <<"A">>),
    AreaRow(<<>>, <<"r","g","2">>, <<>>) }

AreasInit ==
  /\ NoImportRunning
  /\ \E n \in 0..MaxAreaRows :
       \E rows \in [1..n -> AreaRows], order \in Permutations(1..n) :
         call = [fn |-> "extractUniqueAreas", nawsRows |-> rows,
                 reordered |-> [k \in 1..n |-> rows[order[k]]]]
  /\ returned = NotReturned

\* ServiceBodyCreator.extractUniqueAreas(nawsRows)
ExtractAreas ==
  /\ call.fn = "extractUniqueAreas"
  /\ ~returned.done
  /\ returned' = Returned(<< extractUniqueAreas(call.nawsRows) >>)
  /\ UNCHANGED <<importVars, call>>

\* a second call, on the rows in the other order
ExtractAreasAgain ==
  /\ call.fn = "extractUniqueAreas"
  /\ returned.done
  /\ Len(returned.value) = 1
  /\ returned' = Returned(Append(returned.value, extractUniqueAreas(call.reordered)))
  /\ UNCHANGED <<importVars, call>>

AreasNext == ExtractAreas \/ ExtractAreasAgain

AreasSpec == AreasInit /\ [][AreasNext]_vars

\* a row that contributes to the areas: not delete-flagged, code and name not blank
namesArea(row) == ~deleteFlagged(row) /\ ~blank(row.arearegion) /\ ~blank(row.parentname)

areaCode(row) == toUpperCase(trim(row.arearegion))

\* C33: extractUniqueAreas returns exactly one (code, name) entry per distinct
\* uppercased trimmed area/region code among the rows that are not
\* delete-flagged and have a non-blank code and a non-blank parent name; the
\* code of the entry is uppercased, its name is the trimmed name of the first
\* such row with that code.
C33_OneEntryPerCode ==
  returned.done =>
    LET rows == call.nawsRows
        areas == returned.value[1]
        naming == {k \in DOMAIN rows : namesArea(rows[k])}
    IN /\ \A k \in naming :
            Cardinality({j \in DOMAIN areas : areas[j].worldId = areaCode(rows[k])}) = 1
       /\ \A j \in DOMAIN areas :
            \E k \in naming :
              /\ areas[j].worldId = areaCode(rows[k])
              /\ \A q \in naming : areaCode(rows[q]) = areaCode(rows[k]) => k <= q
              /\ areas[j].name = trim(rows[k].parentname)

\* three rows of area AR1 in three spellings, the second with another name
C33_Witness ==
  /\ returned.done
  /\ call.nawsRows = << AreaRow(<<>>, <<"a","r","1">>, <<"A">>),
                        AreaRow(<<>>, <<"A","r","1">>, <<"B">>),
                        AreaRow(<<>>, <<"r","g","2">>, <<"B">>) >>
  /\ returned.value[1] = << [worldId |-> <<"A","R","1">>, name |-> <<"A">>],
                            [worldId |-> <<"R","G","2">>, name |-> <<"B">>] >>

entries(areas) == {areas[j] : j \in DOMAIN areas}

\* C34 as stated: extraction over the same rows twice, or over any
\* permutation of the rows, yields the same set of (code, name) entries.
C34_OrderIndependent ==
  (returned.done /\ Len(returned.value) = 2) =>
    entries(returned.value[1]) = entries(returned.value[2])

\* the rows naming an area agree on its name
namesAgree ==
  \A a, b \in DOMAIN call.nawsRows :
    (/\ namesArea(call.nawsRows[a]) /\ namesArea(call.nawsRows[b])
     /\ areaCode(call.nawsRows[a]) = areaCode(call.nawsRows[b]))
      => trim(call.nawsRows[a].parentname) = trim(call.nawsRows[b].parentname)

\* C34 amended: extraction over the same rows twice yields the same entries;
\* over any permutation of the rows it yields the same set of codes, and the
\* same set of (code, name) entries when the rows naming an area agree on its
\* trimmed name (otherwise the name is that of the first such row in the order).
C34_OrderIndependentUpToNames ==
  (returned.done /\ Len(returned.value) = 2) =>
    /\ {a.worldId : a \in entries(returned.value[1])} = {a.worldId : a \in entries(returned.value[2])}
    /\ namesAgree => entries(returned.value[1]) = entries(returned.value[2])
    /\ call.reordered = call.nawsRows => returned.value[1] = returned.value[2]

\* the rows 'ar1'/A, 'AR1 '/' A ', 'rg2'/B extracted in two different orders
C34_Witness ==
  /\ returned.done
  /\ Len(returned.value) = 2
  /\ call.nawsRows = << AreaRow(<<>>, <<"a","r","1">>, <<"A">>),
                        AreaRow(<<>>, <<"r","g","2">>, <<"B">>),
                        AreaRow(<<>>, <<"A","R","1"," ">>, <<" ","A"," ">>) >>
  /\ call.reordered = << AreaRow(<<>>, <<"r","g","2">>, <<"B">>),
                         AreaRow(<<>>, <<"A","R","1"," ">>, <<" ","A"," ">>),
                         AreaRow(<<>>, <<"a","r","1">>, <<"A">>) >>
  /\ returned.value[1] # returned.value[2]
  /\ entries(returned.value[1]) = entries(returned.value[2])

\* the service bodies on the server that this run created
createdBodies ==
  {k \in DOMAIN serverBodies :
     k > Len(InitialServiceBodies) /\ serverBodies[k].adminUserId \notin OtherAdminIds}

\* C35: for each entry processed by createMissingServiceBodies the remote list
\* is re-fetched before any creation; if it holds a body whose worldId equals
\* the entry's code case-insensitively, createServiceBody is not invoked for
\* the entry and the entry is not counted in servicesBodiesCreated, also when
\* the body was created by another actor after findMissingServiceBodies ran.
C35_ExistingBodyNotRecreated ==
  /\ pc = "sbCreate" =>
       /\ recon.existing = NoServiceBody
       /\ \A k \in DOMAIN serverBodies :
            ~sameCode(serverBodies[k].worldId, currentArea(recon).worldId)
  /\ \A a, b \in DOMAIN serverBodies :
       a # b => ~sameCode(serverBodies[a].worldId, serverBodies[b].worldId)
  /\ recon.servicesBodiesCreated = Cardinality(createdBodies)
  /\ pc = "done" => result.servicesBodiesCreated \in {0, Cardinality(createdBodies)}

\* a run during which another actor created the body of a missing entry
\* before the entry was processed: nothing was created by the run
C35_Witness ==
  /\ pc = "done"
  /\ Len(recon.missing) = 1
  /\ recon.totalProcessed = 1
  /\ \E k \in DOMAIN serverBodies :
       /\ serverBodies[k].adminUserId \in OtherAdminIds
       /\ sameCode(serverBodies[k].worldId, recon.missing[1].worldId)
  /\ createdBodies = {}
  /\ result.servicesBodiesCreated = 0

\* createMissingServiceBodies was called and has returned
reconciled == recon.missing # <<>> /\ pc \notin {"sbList", "sbPrincipal", "sbCurrentUser", "sbCreate"}

\* the errors recorded for the j-th missing entry
entryErrors(j) ==
  {e \in DOMAIN recon.errors : recon.errors[e].arg = recon.missing[j].worldId}

bodyOnServer(j) ==
  \E k \in DOMAIN serverBodies : sameCode(serverBodies[k].worldId, recon.missing[j].worldId)

\* C36: a failure of createServiceBody for one entry adds one error string
\* naming the entry and does not stop the loop: every remaining missing entry
\* is still attempted, one at a time in list order, and totalProcessed equals
\* the number of missing entries when createMissingServiceBodies returns.
C36_CreateFailureDoesNotStopLoop ==
  /\ recon.totalProcessed = recon.i
  /\ \A e \in DOMAIN recon.errors :
       \E j \in 1..recon.i : e \in entryErrors(j)
  /\ \A e1, e2 \in DOMAIN recon.errors :
       e1 < e2 => \E j1, j2 \in 1..recon.i : j1 < j2 /\ e1 \in entryErrors(j1) /\ e2 \in entryErrors(j2)
  /\ reconciled =>
       /\ recon.totalProcessed = Len(recon.missing)
       /\ \A j \in DOMAIN recon.missing :
            /\ Cardinality(entryErrors(j)) = (IF bodyOnServer(j) THEN 0 ELSE 1)
            /\ (scenario = "none" /\ recon.missing[j].worldId \in RejectedBodyIds) =>
                 /\ ~bodyOnServer(j)
                 /\ \A e \in entryErrors(j) : recon.errors[e].msg = "Failed to create service body"
            /\ (scenario = "none" /\ recon.missing[j].worldId \notin RejectedBodyIds) => bodyOnServer(j)

\* the creation of the first missing body failed and the second was created
C36_Witness ==
  /\ pc = "done"
  /\ scenario = "none"
  /\ Len(recon.missing) = 2
  /\ recon.missing[1].worldId \in RejectedBodyIds
  /\ Len(recon.errors) = 1
  /\ recon.totalProcessed = 2
  /\ recon.servicesBodiesCreated = 1

\* the result of the callback of valid row k, given the fixed outcome of its
\* createMeeting call
rowOutcome(k) ==
  LET started == startRow(existingWorldIds, updatedServiceBodies, engine.validRows[k], k + 1)
  IN IF ~started.pending THEN started
     ELSE IF started.meeting.worldId \in RejectedMeetingIds
       THEN Settled(FALSE, FALSE, NoMeeting,
                    << [row |-> k + 1, msg |-> "Failed to create meeting", arg |-> <<>>] >>)
     ELSE Settled(TRUE, FALSE, started.meeting, <<>>)

\* the aggregation of the outcomes of the first n valid rows, in row order
inRowOrder(n) ==
  aggregate([NoEngine EXCEPT !.validRows = engine.validRows], [k \in 1..n |-> rowOutcome(k)])

\* the submission state and, for a completed run, the result carry the
\* aggregation `expected`
carries(expected) ==
  /\ engine.successfulCount = expected.successfulCount
  /\ engine.failed = expected.failed
  /\ engine.skipped = expected.skipped
  /\ engine.successful = expected.successful
  /\ engine.errors = expected.errors
  /\ completed =>
       /\ engine.processedCount = Len(engine.validRows)
       /\ result.successfulImports = expected.successfulCount
       /\ result.failedImports = expected.failed
       /\ result.skippedImports = expected.skipped
       /\ result.createdMeetings = expected.successful
       /\ SubSeq(result.errors, Len(result.errors) - Len(expected.errors) + 1,
                 Len(result.errors)) = expected.errors

\* C37: the counters, the stored created-meeting samples and the order of the
\* error strings of a submission do not depend on the order in which the
\* createMeeting calls of a batch complete: they are those of the per-row
\* outcomes taken in row order, whatever the interleaving of the completions.
C37_CompletionOrderIrrelevant ==
  /\ (pc = "batch" /\ inflight = {}) =>
       batchResults = [b \in 1..Len(batchResults) |-> rowOutcome(engine.i + b)]
  /\ (pc = "done" /\ engine.processedCount > 0) => carries(inRowOrder(engine.processedCount))

\* the call of the second row of a batch has completed while the call of the
\* first row is still in flight
C37_Witness ==
  /\ pc = "batch"
  /\ Len(batchResults) = 2
  /\ inflight = {engine.i + 1}
  /\ engine.i + 2 \in created
  /\ batchResults[1].meeting # batchResults[2].meeting

\* the trimmed uppercased external code of valid row k
codeOfRow(k) == toUpperCase(trim(engine.validRows[k].committee))

\* the submission has started: the snapshot of existing codes was taken
submitting == pc \in {"batch", "delay"} \/ (pc = "done" /\ batches > 0)

\* the codes of the rows whose logged outcome is, or is not, a skip
codesLogged(asSkipped) ==
  {codeOfRow(outcomeLog[k].idx) :
     k \in {n \in DOMAIN outcomeLog : (outcomeLog[n].kind = "skipped") = asSkipped}}

\* the same for the results of the batch in progress
codesInBatch(asSkipped) ==
  {codeOfRow(engine.i + b) :
     b \in {n \in DOMAIN batchResults : batchResults[n].skipped = asSkipped}}

\* C38: the set of existing external codes used for the duplicate check is a
\* snapshot taken once before the first batch and never updated during the
\* submission: a row is skipped if and only if its trimmed uppercased code is
\* in that snapshot, so a code created by an earlier row of the same run does
\* not cause a later row with the same code to be skipped.
C38_SnapshotNeverUpdated ==
  /\ submitting => existingWorldIds = getExistingMeetingWorldIds
  /\ (pc = "batch") =>
       /\ codesInBatch(TRUE) \subseteq getExistingMeetingWorldIds
       /\ codesInBatch(FALSE) \cap getExistingMeetingWorldIds = {}
  /\ codesLogged(TRUE) \subseteq getExistingMeetingWorldIds
  /\ codesLogged(FALSE) \cap getExistingMeetingWorldIds = {}
  /\ {codeOfRow(j) : j \in created} \cap codesLogged(TRUE) = {}

\* two rows with the same external code were created in different batches of
\* one run
C38_Witness ==
  /\ completed
  /\ \E j, k \in created :
       /\ k >= j + BATCH_SIZE
       /\ codeOfRow(j) = codeOfRow(k)
       /\ Truthy(codeOfRow(j))
       /\ \E n \in DOMAIN outcomeLog : outcomeLog[n].idx = k /\ outcomeLog[n].kind = "success"

\* importFromFile is between the abort check that follows the configuration
\* fetch and the one that precedes the submission
inEntryLoop == pc \in {"sbList", "sbPrincipal", "sbCurrentUser", "sbCreate"}
reconciling == pc \in {"findMissing", "refetch"} \/ inEntryLoop

\* C39: the abort signal is not consulted between the check that follows the
\* server-configuration fetch and the check that precedes submission: if it
\* becomes set while service bodies are being reconciled, every remaining
\* missing service body is still attempted, and the cancellation is observed
\* only afterwards, at the check before the first batch, so that no
\* createMeeting call is issued.
C39_AbortNotConsultedWhileReconciling ==
  [][ /\ (reconciling /\ abortSignal) =>
           /\ ~cancelled'
           /\ issued' = <<>>
      /\ (inEntryLoop /\ abortSignal) =>
           /\ inEntryLoop' \/ pc' = "refetch"
           /\ recon'.i \in {recon.i, recon.i + 1}
           /\ pc' = "refetch" => recon'.totalProcessed = Len(recon'.missing)
      /\ (pc = "getMeetings" /\ abortSignal) =>
           /\ cancelled'
           /\ issued' = <<>>
           /\ batches' = 0
    ]_vars

\* the signal is set while the second of two missing service bodies is being
\* created
C39_Witness ==
  /\ pc = "sbCreate"
  /\ abortSignal
  /\ Len(recon.missing) = 2
  /\ recon.i = 2
  /\ recon.totalProcessed = 2

(***************************************************************************)
(* One time text passed to the validator, then to the encoder              *)
(***************************************************************************)
\* the hours and minutes isValidTime computes before its range test; NaN when
\* the text takes neither branch
validatorClock(time) ==
  LET timeStr == stripTime(time)
      none == [hours |-> NaN, minutes |-> NaN]
  IN IF Len(timeStr) = 3 \/ Len(timeStr) = 4
       THEN LET num == parseInt(timeStr)
            IN IF num = NaN THEN none
               ELSE [hours |-> num \div 100, minutes |-> num % 100]
     ELSE IF \E k \in 1..Len(timeStr) : timeStr[k] = ":"
       THEN LET parts == splitColon(timeStr)
            IN IF Len(parts) = 2
                 THEN [hours |-> parseInt(parts[1]), minutes |-> parseInt(parts[2])]
                 ELSE none
     ELSE none

TimeAgreeInit ==
  /\ NoImportRunning
  /\ call \in [fn : {"validateThenEncode"}, time : TimeTexts]
  /\ returned = NotReturned

\* validateAndProcess tests the time of the row with isValidTime
AcceptTime ==
  /\ call.fn = "validateThenEncode"
  /\ ~returned.done
  /\ returned' = Returned([valid |-> isValidTime(call.time), encoded |-> FALSE, startTime |-> <<>>])
  /\ UNCHANGED <<importVars, call>>

\* mapNAWSRowToMeeting encodes the time of the same row with formatTimeForBMLT
EncodeTime ==
  /\ call.fn = "validateThenEncode"
  /\ returned.done
  /\ ~returned.value.encoded
  /\ returned' = Returned([valid |-> returned.value.valid, encoded |-> TRUE,
                           startTime |-> formatTimeForBMLT(call.time)])
  /\ UNCHANGED <<importVars, call>>

TimeAgreeNext == AcceptTime \/ EncodeTime

TimeAgreeSpec == TimeAgreeInit /\ [][TimeAgreeNext]_vars

=============================================================================
